---------------------------- MODULE Spec2Model ----------------------------
(***************************************************************************)
(* A model of the LeafSQL API core: the statement validator                *)
(* (AIService.validateSQL), the per-workspace connection pools and the     *)
(* query executor (DatabaseService), and the query routes that compose     *)
(* them.  Text is modelled as a sequence of one-character strings, so the  *)
(* validator's regular expressions are evaluated character by character.   *)
(***************************************************************************)
EXTENDS Integers, Sequences, FiniteSets, TLC

(***************************************************************************)
(* Characters and the JavaScript string primitives the code relies on.     *)
(***************************************************************************)

LowerSeq ==
  <<"a", "b", "c", "d", "e", "f", "g", "h", "i", "j", "k", "l", "m">> \o
  <<"n", "o", "p", "q", "r", "s", "t", "u", "v", "w", "x", "y", "z">>

UpperSeq ==
  <<"A", "B", "C", "D", "E", "F", "G", "H", "I", "J", "K", "L", "M">> \o
  <<"N", "O", "P", "Q", "R", "S", "T", "U", "V", "W", "X", "Y", "Z">>

Digits == {"0", "1", "2", "3", "4", "5", "6", "7", "8", "9"}


\* The characters String.prototype.trim strips and the regex class \s matches
\* (restricted to the ones the model's texts use).
WhiteSpace == {" ", "\t", "\n", "\r"}

IsSpace(c) == c \in WhiteSpace

\* The regex class \w: [A-Za-z0-9_].
WordChars ==
  {LowerSeq[i] : i \in 1..26} \cup {UpperSeq[i] : i \in 1..26} \cup Digits \cup {"_"}

IsWordChar(c) == c \in WordChars

LowerOf == [c \in {UpperSeq[i] : i \in 1..26} |->
              LowerSeq[CHOOSE i \in 1..26 : UpperSeq[i] = c]]

UpperOf == [c \in {LowerSeq[i] : i \in 1..26} |->
              UpperSeq[CHOOSE i \in 1..26 : LowerSeq[i] = c]]

toLowerChar(c) == IF c \in DOMAIN LowerOf THEN LowerOf[c] ELSE c

toUpperChar(c) == IF c \in DOMAIN UpperOf THEN UpperOf[c] ELSE c

\* String.prototype.toLowerCase / toUpperCase
toLowerCase(s) == [i \in 1..Len(s) |-> toLowerChar(s[i])]

toUpperCase(s) == [i \in 1..Len(s) |-> toUpperChar(s[i])]

\* String.prototype.trim
trim(s) ==
  IF \A i \in 1..Len(s) : IsSpace(s[i])
    THEN << >>
    ELSE LET a == CHOOSE i \in 1..Len(s) :
                    /\ ~IsSpace(s[i])
                    /\ \A j \in 1..(i - 1) : IsSpace(s[j])
             b == CHOOSE i \in 1..Len(s) :
                    /\ ~IsSpace(s[i])
                    /\ \A j \in (i + 1)..Len(s) : IsSpace(s[j])
         IN  SubSeq(s, a, b)

\* String.prototype.startsWith
startsWith(s, p) == Len(s) >= Len(p) /\ SubSeq(s, 1, Len(p)) = p

\* String.prototype.indexOf, with JavaScript's 0-based positions: -1 when p
\* does not occur.
indexOf(s, p) ==
  LET hits == {i \in 0..(Len(s) - Len(p)) : SubSeq(s, i + 1, i + Len(p)) = p}
  IN  IF hits = {} THEN -1 ELSE CHOOSE i \in hits : \A j \in hits : i <= j

\* String.prototype.includes
includes(s, p) == indexOf(s, p) # -1

\* String.prototype.substring(start, end), 0-based: both arguments are clamped
\* to [0, length] and swapped when start > end.
substring(s, start, end) ==
  LET clamp(x) == IF x < 0 THEN 0 ELSE IF x > Len(s) THEN Len(s) ELSE x
      a == clamp(start)
      b == clamp(end)
      lo == IF a <= b THEN a ELSE b
      hi == IF a <= b THEN b ELSE a
  IN  SubSeq(s, lo + 1, hi)

(***************************************************************************)
(* Regular expressions.  A pattern is a sequence of items: a literal       *)
(* character (compared case-insensitively, the i flag), \s*, \s+ or the    *)
(* word boundary \b.                                                       *)
(***************************************************************************)
Lit(chars) == [i \in 1..Len(chars) |-> [t |-> "lit", c |-> chars[i]]]

WS0 == << [t |-> "ws0", c |-> ""] >>

\* Mutation: exactly one blank where the patterns have \s+.
WS1Blank == << [t |-> "lit", c |-> " "] >>

WS1 == << [t |-> "ws1", c |-> ""] >>

WB == << [t |-> "wb", c |-> ""] >>

\* \b holds at pos (between s[pos-1] and s[pos]) when exactly one side is a
\* word character; outside the text counts as a non-word character.
AtWordBoundary(s, pos) ==
  LET before == pos > 1 /\ pos - 1 <= Len(s) /\ IsWordChar(s[pos - 1])
      after  == pos >= 1 /\ pos <= Len(s) /\ IsWordChar(s[pos])
  IN  before # after

RECURSIVE MatchFrom(_, _, _, _)
MatchFrom(pat, k, s, pos) ==
  IF k > Len(pat) THEN TRUE
  ELSE CASE pat[k].t = "lit" ->
              /\ pos <= Len(s)
              /\ toLowerChar(s[pos]) = toLowerChar(pat[k].c)
              /\ MatchFrom(pat, k + 1, s, pos + 1)
         [] pat[k].t = "ws0" ->
              \/ MatchFrom(pat, k + 1, s, pos)
              \/ /\ pos <= Len(s)
                 /\ IsSpace(s[pos])
                 /\ MatchFrom(pat, k, s, pos + 1)
         [] pat[k].t = "ws1" ->
              /\ pos <= Len(s)
              /\ IsSpace(s[pos])
              /\ \/ MatchFrom(pat, k + 1, s, pos + 1)
                 \/ MatchFrom(pat, k, s, pos + 1)
         [] pat[k].t = "wb" ->
              /\ AtWordBoundary(s, pos)
              /\ MatchFrom(pat, k + 1, s, pos)

\* RegExp.prototype.test of a pattern without the g flag: a match anywhere.
RegexTest(pat, s) == \E pos \in 1..(Len(s) + 1) : MatchFrom(pat, 1, s, pos)

(***************************************************************************)
(* AIService.validateSQL                                                   *)
(***************************************************************************)

dangerousKeywords ==
  << <<"d", "r", "o", "p">>,
     <<"d", "e", "l", "e", "t", "e">>,
     <<"i", "n", "s", "e", "r", "t">>,
     <<"u", "p", "d", "a", "t", "e">>,
     <<"a", "l", "t", "e", "r">>,
     <<"t", "r", "u", "n", "c", "a", "t", "e">>,
     <<"c", "r", "e", "a", "t", "e">>,
     <<"g", "r", "a", "n", "t">>,
     <<"r", "e", "v", "o", "k", "e">>,
     <<"e", "x", "e", "c">>,
     <<"e", "x", "e", "c", "u", "t", "e">>,
     <<"s", "p", "_">>,
     <<"x", "p", "_">>,
     <<"b", "a", "c", "k", "u", "p">>,
     <<"r", "e", "s", "t", "o", "r", "e">>,
     <<"s", "h", "u", "t", "d", "o", "w", "n">>,
     <<"k", "i", "l", "l">>,
     <<"d", "b", "c", "c">>,
     <<"b", "u", "l", "k">>,
     <<"o", "p", "e", "n", "r", "o", "w", "s", "e", "t">>,
     <<"o", "p", "e", "n", "d", "a", "t", "a", "s", "o", "u", "r", "c", "e">>,
     <<"u", "n", "i", "o", "n", " ", "a", "l", "l">> >>

injectionPatterns ==
  << Lit(<<";">>) \o WS0 \o Lit(<<"d", "r", "o", "p">>),
     Lit(<<";">>) \o WS0 \o Lit(<<"d", "e", "l", "e", "t", "e">>),
     Lit(<<";">>) \o WS0 \o Lit(<<"i", "n", "s", "e", "r", "t">>),
     Lit(<<";">>) \o WS0 \o Lit(<<"u", "p", "d", "a", "t", "e">>),
     Lit(<<"u", "n", "i", "o", "n">>) \o WS1 \o Lit(<<"s", "e", "l", "e", "c", "t">>),
     Lit(<<"o", "r">>) \o WS1 \o Lit(<<"1">>) \o WS0 \o Lit(<<"=">>) \o WS0 \o Lit(<<"1">>),
     Lit(<<"a", "n", "d">>) \o WS1 \o Lit(<<"1">>) \o WS0 \o Lit(<<"=">>) \o WS0 \o Lit(<<"1">>),
     Lit(<<"'">>) \o WS0 \o Lit(<<"o", "r">>) \o WS0 \o Lit(<<"'">>) \o WS0 \o Lit(<<"x">>) \o WS0 \o Lit(<<"'">>) \o WS0 \o Lit(<<"=">>) \o WS0 \o Lit(<<"'">>) \o WS0 \o Lit(<<"x">>),
     Lit(<<"'">>) \o WS0 \o Lit(<<"o", "r">>) \o WS0 \o Lit(<<"1">>) \o WS0 \o Lit(<<"=">>) \o WS0 \o Lit(<<"1">>) \o WS0 \o Lit(<<"-", "-">>),
     Lit(<<"'">>) \o WS0 \o Lit(<<"o", "r">>) \o WS0 \o Lit(<<"1">>) \o WS0 \o Lit(<<"=">>) \o WS0 \o Lit(<<"1">>) \o WS0 \o Lit(<<"#">>),
     Lit(<<"'">>) \o WS0 \o Lit(<<"o", "r">>) \o WS0 \o Lit(<<"1">>) \o WS0 \o Lit(<<"=">>) \o WS0 \o Lit(<<"1">>) \o WS0 \o Lit(<<"/", "*">>) >>


\* Mutation: the keyword without the word boundaries.
KeywordRegexNoBoundary(keyword) == Lit(keyword)

\* new RegExp(`\\b${keyword}\\b`, 'i')
KeywordRegex(keyword) == WB \o Lit(keyword) \o WB

keywordRegexes ==
  [i \in 1..Len(dangerousKeywords) |-> KeywordRegex(dangerousKeywords[i])]

Accepted == [ok |-> TRUE, kind |-> "Accepted", keyword |-> << >>]

Rejected(kind, keyword) == [ok |-> FALSE, kind |-> kind, keyword |-> keyword]

\* The verdict of validateSQL(sql): Accepted when it returns, Rejected with the
\* kind of the Error it throws otherwise.
validateSQL(sql) ==
  LET trimmedSQL == toLowerCase(trim(sql))
      hitK == {i \in 1..Len(dangerousKeywords) : RegexTest(keywordRegexes[i], sql)}
      firstK == CHOOSE i \in hitK : \A j \in hitK : i <= j
  IN  IF sql = << >> THEN Rejected("EmptyInput", << >>)
      ELSE IF ~startsWith(trimmedSQL, <<"s", "e", "l", "e", "c", "t">>)
        THEN Rejected("NotSelect", << >>)
      ELSE IF hitK # {}
        THEN Rejected("DisallowedKeyword", toUpperCase(dangerousKeywords[firstK]))
      ELSE IF \E i \in 1..Len(injectionPatterns) : RegexTest(injectionPatterns[i], sql)
        THEN Rejected("InjectionPatternDetected", << >>)
      ELSE Accepted

(***************************************************************************)
(* Bounded families of statement texts the validator is exercised on.      *)
(***************************************************************************)
\* Longest run of context characters put on either side of a word.
MaxCtx == 1

\* Longest run of whitespace put between two tokens of an injection construct:
\* runs of one character and runs of several, of one kind or mixed.
MaxWs == 2

RECURSIVE SeqsUpTo(_, _)
SeqsUpTo(S, n) ==
  IF n = 0 THEN { << >> }
  ELSE LET shorter == SeqsUpTo(S, n - 1)
       IN  shorter \cup {Append(q, c) : q \in shorter, c \in S}

CaseModes == {"lower", "upper", "mixed"}

ApplyCase(m, s) ==
  CASE m = "lower" -> s
    [] m = "upper" -> toUpperCase(s)
    [] m = "mixed" -> [i \in 1..Len(s) |-> IF i % 2 = 1 THEN toUpperChar(s[i]) ELSE s[i]]

sSelect == <<"s", "e", "l", "e", "c", "t">>

Heads ==
  { <<"s", "e", "l", "e", "c", "t", " ">>,
    <<"\n", " ", "s", "e", "l", "e", "c", "t", " ">>,
    <<"s", "e", "l", "e", "c", "t", "x", " ">>,
    <<"w", "i", "t", "h", " ">>,
    <<>> }

CtxChars == {" ", "_", ";"}

WsChars == {" ", "\n"}

BenignWords == { <<"i", "d">> }

Words == {dangerousKeywords[i] : i \in 1..Len(dangerousKeywords)} \cup BenignWords

Ctx == SeqsUpTo(CtxChars, MaxCtx)

WsRuns == SeqsUpTo(WsChars, MaxWs)

WsRuns1 == WsRuns \ { << >> }

\* A word in context: head, left context, the word, right context.
KeywordStatements ==
  { ApplyCase(m, h \o l \o k \o r) :
      m \in CaseModes, h \in Heads, l \in Ctx, k \in Words, r \in Ctx }

CommentMarkers == { <<>>, <<"-", "-">>, <<"#">>, <<"/", "*">> }

sHead == <<"s", "e", "l", "e", "c", "t", " ", "a", " ">>

\* `union select`, `or 1=1`, `and 1=1` and `' or 'x'='x`, with the whitespace
\* between their tokens varied and an optional comment marker after them.
UnionStatements ==
  { ApplyCase(m, sHead \o <<"u", "n", "i", "o", "n">> \o w1 \o sSelect \o <<" ", "b">>) :
      m \in CaseModes, w1 \in WsRuns1 }

BoolTautologyStatements ==
  { ApplyCase(m, sHead \o op \o w1 \o <<"1">> \o w2 \o <<"=">> \o w3 \o <<"1">> \o t) :
      m \in CaseModes, op \in {<<"o", "r">>, <<"a", "n", "d">>}, w1 \in WsRuns1, w2 \in WsRuns, w3 \in WsRuns,
      t \in CommentMarkers }

QuotedTautologyStatements ==
  { ApplyCase(m, sHead \o <<"'">> \o w1 \o <<"o", "r">> \o w2 \o <<"'", "x", "'">> \o w3
                 \o <<"=">> \o w4 \o <<"'", "x">> \o t) :
      m \in CaseModes, w1 \in WsRuns, w2 \in WsRuns, w3 \in WsRuns, w4 \in WsRuns,
      t \in CommentMarkers }

TautologyStatements ==
  UnionStatements \cup BoolTautologyStatements \cup QuotedTautologyStatements

sActiveUsers == <<"S", "E", "L", "E", "C", "T", " ", "*", " ", "F", "R", "O", "M", " ", "u", "s", "e", "r", "s", " ", "W", "H", "E", "R", "E", " ", "a", "c", "t", "i", "v", "e", " ", "=", " ", "t", "r", "u", "e">>

sDropUsers == <<"S", "E", "L", "E", "C", "T", " ", "*", " ", "F", "R", "O", "M", " ", "u", "s", "e", "r", "s", ";", " ", "D", "R", "O", "P", " ", "T", "A", "B", "L", "E", " ", "u", "s", "e", "r", "s", ";">>

sDropdown == <<"S", "E", "L", "E", "C", "T", " ", "d", "r", "o", "p", "d", "o", "w", "n", "_", "i", "d", " ", "F", "R", "O", "M", " ", "u", "s", "e", "r", "s">>

sPadded == <<" ", "S", "E", "L", "E", "C", "T", " ", "1", "\n">>

sStoredProc == <<"S", "E", "L", "E", "C", "T", " ", "s", "p", "_", "e", "x", "e", "c", "u", "t", "e", "s", "q", "l">>

sSelect1 == <<"S", "E", "L", "E", "C", "T", " ", "1">>

SampleStatements == {sActiveUsers, sDropUsers, sDropdown, sPadded, sStoredProc, << >>}

(***************************************************************************)
(* DatabaseService: bounds, program constants and the driver's errors.     *)
(***************************************************************************)
\* Number of concurrent callers of executeQuery that are modelled one by one.
NumReq == 2

\* Number of Pool objects that may be constructed in one run.
MaxPools == 2

\* Number of concurrent closePool calls.
NumClosers == 1

\* poolConfig.max
PoolMax == 10

MAX_ROWS == 10000

Reqs == 1..NumReq

PoolIds == 1..MaxPools

Closers == 1..NumClosers

\* Number of closeAllPools calls in one run.
NumSweeps == 2

Sweeps == 1..NumSweeps

Tenants == {"w1", "w2"}

Dsns == {"postgresql://u:p@db.a.com/x", "postgresql://u:p@db.b.com/x"}

\* Statements handed to executeQuery directly.
ExecStatements == {sSelect1, << >>}

\* result.rowCount values the database may answer with.
RowCounts == {3, MAX_ROWS, MAX_ROWS + 1}

NoCode == "none"

NativeError(code, message) == [code |-> code, message |-> message]

\* Errors pool.connect() may reject with while a new connection is made.
ConnectErrors ==
  { NativeError("ECONNREFUSED", "connect ECONNREFUSED") }

\* pool.connect() on a request that waited connectionTimeoutMillis in the queue.
AcquireTimeoutError == NativeError(NoCode, "timeout exceeded when trying to connect")

\* pool.connect() on a pool on which end() was called.
PoolEndedError == NativeError(NoCode, "Cannot use a pool after calling end on the pool")

\* Errors client.query() may reject with.
QueryErrors ==
  { NativeError("42601", "syntax error"),
    NativeError("57014", "canceling statement due to statement timeout") }

EmptySqlError == NativeError(NoCode, "SQL query must be a non-empty string")

RowLimitMessage == "Query result exceeds maximum allowed rows"

\* error.message.includes('timeout') / includes('exceeds maximum allowed rows'),
\* on the messages above.
IncludesTimeout(message) ==
  message \in { "Connection terminated due to connection timeout",
                "timeout exceeded when trying to connect",
                "canceling statement due to statement timeout" }

IncludesRowLimit(message) ==
  message \in { RowLimitMessage,
                "column \"exceeds maximum allowed rows\" does not exist" }

Outcome(ok, message, detail, code, limit, rowCount) ==
  [ok |-> ok, message |-> message, detail |-> detail, code |-> code,
   limit |-> limit, rowCount |-> rowCount]

NoOutcome == Outcome(FALSE, "none", "", "", 0, 0)

Success(rowCount) == Outcome(TRUE, "", "", "", 0, rowCount)

\* The Error thrown by the row check of executeQuery; it names MAX_ROWS.
RowLimitError == NativeError(NoCode, RowLimitMessage)

\* The catch block of executeQuery: what is thrown for a caught error.
Classify(error) ==
  LET code == IF error.code = NoCode THEN "UNKNOWN" ELSE error.code
      thrown(message) == Outcome(FALSE, message, "", code, 0, 0)
  IN  IF IncludesRowLimit(error.message)
        THEN Outcome(FALSE, error.message, "", error.code,
                     IF error = RowLimitError THEN MAX_ROWS ELSE 0, 0)
      ELSE IF error.code = "ECONNREFUSED"
        THEN thrown("Database connection refused - check if database is running")
      ELSE IF error.code = "ENOTFOUND"
        THEN thrown("Database host not found - check connection string")
      ELSE IF error.code = "28P01"
        THEN thrown("Database authentication failed - check username/password")
      ELSE IF error.code = "3D000"
        THEN thrown("Database does not exist - check database name")
      ELSE IF error.code = "42P01"
        THEN thrown("Table does not exist - check table name")
      ELSE IF error.code = "42601"
        THEN thrown("SQL syntax error - check query syntax")
      ELSE IF error.code = "23505"
        THEN thrown("Duplicate key violation - unique constraint failed")
      ELSE IF error.code = "23503"
        THEN thrown("Foreign key violation - referenced record does not exist")
      ELSE IF IncludesTimeout(error.message)
        THEN thrown("Query timeout - query took too long to execute")
      ELSE Outcome(FALSE, "Database error", error.message, code, 0, 0)

\* The kind of the closed taxonomy an outcome's message stands for.
KindOf(outcome) ==
  CASE outcome.ok -> "Success"
    [] outcome.message = RowLimitMessage -> "ResultTooLarge"
    [] outcome.message = "Database connection refused - check if database is running"
         -> "ConnectionRefused"
    [] outcome.message = "Database host not found - check connection string"
         -> "HostNotFound"
    [] outcome.message = "Database authentication failed - check username/password"
         -> "AuthenticationFailed"
    [] outcome.message = "Database does not exist - check database name"
         -> "DatabaseNotFound"
    [] outcome.message = "Table does not exist - check table name" -> "TableNotFound"
    [] outcome.message = "SQL syntax error - check query syntax" -> "SyntaxError"
    [] outcome.message = "Duplicate key violation - unique constraint failed"
         -> "UniqueConstraintViolation"
    [] outcome.message = "Foreign key violation - referenced record does not exist"
         -> "ForeignKeyViolation"
    [] outcome.message = "Query timeout - query took too long to execute" -> "Timeout"
    [] OTHER -> "DatabaseError"

(***************************************************************************)
(* State.                                                                  *)
(***************************************************************************)
VARIABLES
  vsql,        \* validator harness: the text handed to validateSQL
  vfam,        \* validator harness: the family the text was drawn from
  vres,        \* validator harness: the verdict, NoVerdict before the call
  pools,       \* DatabaseService.pools: workspaceId -> Pool (0: no entry)
  poolSt,      \* per Pool object: "none", "open", "ending" (end() called), "ended"
  poolDsn,     \* per Pool object: the connectionString it was constructed with
  poolTenant,  \* per Pool object: the workspaceId it was constructed for
  others,      \* per Pool object: clients checked out by calls not modelled one by one
  waitq,       \* per Pool object: the pending queue of pool.connect()
  nPools,      \* number of Pool objects constructed so far
  req,         \* per caller: the executeQuery call in progress
  cl,          \* per closer: the closePool call in progress
  rt,          \* the HTTP request served by a query route
  sw,          \* per sweep: the closeAllPools call in progress
  dg           \* diagnostics harness: a DSN pair, a driver error, what was written

valVars == <<vsql, vfam, vres>>

poolVars == <<pools, poolSt, poolDsn, poolTenant, others, waitq, nPools>>

vars == <<vsql, vfam, vres, pools, poolSt, poolDsn, poolTenant, others, waitq,
          nPools, req, cl, rt, sw, dg>>

NoVerdict == [ok |-> FALSE, kind |-> "none", keyword |-> << >>]

NoError == NativeError(NoCode, "")

IdleReq ==
  [pc |-> "idle", tenant |-> "", dsn |-> "", sql |-> << >>, pool |-> 0, slot |-> 0,
   acquired |-> 0, releases |-> 0, sent |-> << >>, gone |-> FALSE,
   native |-> NoError, rowCount |-> -1, outcome |-> NoOutcome]

IdleCloser == [pc |-> "idle", tenant |-> "", pool |-> 0, result |-> "none"]

\* A closeAllPools call: the caller (the SIGTERM handler or a direct caller),
\* the workspaceIds it read from the map, its closePool call per workspaceId
\* and the Pool that call got, and how the promise of Promise.all settled.
IdleSweep ==
  [pc |-> "idle", from |-> "none", ids |-> {}, sub |-> [t \in Tenants |-> "none"],
   pool |-> [t \in Tenants |-> 0], result |-> "none"]

IdleDiag == [pc |-> "off"]

InitValidatorIdle == vsql = << >> /\ vfam = "none" /\ vres = NoVerdict

InitPools ==
  /\ pools = [t \in Tenants |-> 0]
  /\ poolSt = [p \in PoolIds |-> "none"]
  /\ poolDsn = [p \in PoolIds |-> ""]
  /\ poolTenant = [p \in PoolIds |-> ""]
  /\ others = [p \in PoolIds |-> 0]
  /\ waitq = [p \in PoolIds |-> << >>]
  /\ nPools = 0
  /\ req = [r \in Reqs |-> IdleReq]
  /\ cl = [c \in Closers |-> IdleCloser]
  /\ sw = [k \in Sweeps |-> IdleSweep]


(***************************************************************************)
(* The pg Pool as DatabaseService uses it.                                 *)
(***************************************************************************)
\* Callers holding a client of pool p (checked out, or being connected for them).
Holders(p) == {r \in Reqs : req[r].slot = p}

\* Clients of pool p that are not idle.
Busy(p) == Cardinality(Holders(p)) + others[p]

Min(a, b) == IF a < b THEN a ELSE b

\* The pool after `freed` clients of p came back (release(), or a failed
\* connect): an open pool hands them to the heads of its pending queue, a pool
\* that is ending is ended once no client is left.  rq is req with the clients
\* already given back.
AfterRelease(p, rq, othersLeft, freed) ==
  LET n == IF poolSt[p] = "open" THEN Min(freed, Len(waitq[p])) ELSE 0
      served == {waitq[p][i] : i \in 1..n}
      stillHeld == Cardinality({r \in Reqs : rq[r].slot = p}) + othersLeft
  IN  /\ req' = [r \in Reqs |->
                   IF r \in served
                     THEN [rq[r] EXCEPT !.pc = "connecting", !.slot = p]
                     ELSE rq[r]]
      /\ waitq' = [waitq EXCEPT ![p] = SubSeq(waitq[p], n + 1, Len(waitq[p]))]
      /\ others' = [others EXCEPT ![p] = othersLeft]
      /\ poolSt' = IF poolSt[p] = "ending" /\ stillHeld = 0
                     THEN [poolSt EXCEPT ![p] = "ended"]
                     ELSE poolSt

(***************************************************************************)
(* DatabaseService.getPool and executeQuery                                *)
(***************************************************************************)
\* Mutation: getPool without the pools.has check.
getPoolHitNever(t) == FALSE

\* getPool(workspaceId, connectionString): the pool it returns, and the map and
\* the Pool objects after it.  It runs to completion without yielding.
getPoolHit(t) == pools[t] # 0

getPoolResult(t) == IF getPoolHit(t) THEN pools[t] ELSE nPools + 1

getPool(t, d) ==
  IF getPoolHit(t)
    THEN UNCHANGED <<pools, poolDsn, poolTenant, nPools>> /\ poolSt' = poolSt
    ELSE /\ nPools < MaxPools
         /\ nPools' = nPools + 1
         /\ pools' = [pools EXCEPT ![t] = nPools + 1]
         /\ poolSt' = [poolSt EXCEPT ![nPools + 1] = "open"]
         /\ poolDsn' = [poolDsn EXCEPT ![nPools + 1] = d]
         /\ poolTenant' = [poolTenant EXCEPT ![nPools + 1] = t]

\* executeQuery up to its first await: the input check, getPool, pool.connect().
ExecCallCore(r, t, d, s) ==
  /\ req[r].pc = "idle"
  /\ LET call == [IdleReq EXCEPT !.tenant = t, !.dsn = d, !.sql = s]
         p == getPoolResult(t)
     IN  IF s = << >>
           THEN /\ req' = [req EXCEPT ![r] =
                             [call EXCEPT !.pc = "done", !.native = EmptySqlError,
                                          !.outcome = Classify(EmptySqlError)]]
                /\ UNCHANGED poolVars
           ELSE /\ getPool(t, d)
                /\ UNCHANGED others
                /\ IF getPoolHit(t) /\ poolSt[p] # "open"
                     THEN /\ req' = [req EXCEPT ![r] =
                                       [call EXCEPT !.pc = "done", !.pool = p,
                                                    !.native = PoolEndedError,
                                                    !.outcome = Classify(PoolEndedError)]]
                          /\ UNCHANGED waitq
                     ELSE IF getPoolHit(t) /\ Busy(p) >= PoolMax
                       THEN /\ req' = [req EXCEPT ![r] =
                                         [call EXCEPT !.pc = "queued", !.pool = p]]
                            /\ waitq' = [waitq EXCEPT ![p] = Append(@, r)]
                       ELSE /\ req' = [req EXCEPT ![r] =
                                         [call EXCEPT !.pc = "connecting", !.pool = p,
                                                      !.slot = p]]
                            /\ UNCHANGED waitq

ExecCall(r) ==
  /\ \E t \in Tenants, d \in Dsns, s \in ExecStatements : ExecCallCore(r, t, d, s)
  /\ UNCHANGED <<valVars, sw, dg, rt, cl>>

\* pool.connect() resolves with a client; client.query(sql) is dispatched.
ConnectOk(r) ==
  /\ req[r].pc = "connecting"
  /\ req' = [req EXCEPT ![r] = [@ EXCEPT !.pc = "querying", !.acquired = @ + 1,
                                         !.sent = req[r].sql]]
  /\ UNCHANGED <<valVars, sw, dg, rt, poolVars, cl>>

\* Mutation: no finally block: a caught error leaves the client checked out.
ThrownNoRelease(rq, error) ==
  [rq EXCEPT !.pc = "done", !.native = error, !.outcome = Classify(error),
             !.dsn = "", !.sql = << >>, !.sent = << >>]

\* The catch and finally blocks of executeQuery for a caught error.
Thrown(rq, error) ==
  [rq EXCEPT !.pc = "done", !.native = error, !.outcome = Classify(error),
             !.slot = 0, !.releases = IF rq.acquired > 0 THEN @ + 1 ELSE @,
             !.dsn = "", !.sql = << >>, !.sent = << >>]

\* pool.connect() rejects: no client was handed out, the pool drops the
\* connection it was making.
ConnectFail(r) ==
  /\ req[r].pc = "connecting"
  /\ \E e \in ConnectErrors :
       AfterRelease(req[r].slot, [req EXCEPT ![r] = Thrown(@, e)],
                    others[req[r].slot], 1)
  /\ UNCHANGED <<valVars, sw, dg, rt, pools, poolDsn, poolTenant, nPools, cl>>

\* pool.connect() rejects after connectionTimeoutMillis in the pending queue.
AcquireTimeout(r) ==
  /\ req[r].pc = "queued"
  /\ req' = [req EXCEPT ![r] = Thrown(@, AcquireTimeoutError)]
  /\ waitq' = [waitq EXCEPT ![req[r].pool] = SelectSeq(@, LAMBDA x : x # r)]
  /\ UNCHANGED <<valVars, sw, dg, rt, pools, poolSt, poolDsn, poolTenant, others, nPools, cl>>

\* Mutation: the row check with >= for >.
ExceedsMaxRowsInclusive(rowCount) == rowCount >= MAX_ROWS

\* The row check of executeQuery on result.rowCount.
ExceedsMaxRows(rowCount) == rowCount > MAX_ROWS

\* client.query(sql) resolves: the row check, the return value, release().
QueryOk(r) ==
  /\ req[r].pc = "querying"
  /\ \E n \in RowCounts :
       LET rq == [req[r] EXCEPT !.rowCount = n]
           after == IF ExceedsMaxRows(n)
                      THEN Thrown(rq, RowLimitError)
                      ELSE [rq EXCEPT !.pc = "done", !.outcome = Success(n),
                                      !.slot = 0, !.releases = @ + 1,
                                      !.dsn = "", !.sql = << >>, !.sent = << >>]
       IN  AfterRelease(req[r].slot, [req EXCEPT ![r] = after], others[req[r].slot], 1)
  /\ UNCHANGED <<valVars, sw, dg, rt, pools, poolDsn, poolTenant, nPools, cl>>

\* client.query(sql) rejects: catch, release().
QueryFail(r) ==
  /\ req[r].pc = "querying"
  /\ \E e \in QueryErrors :
       AfterRelease(req[r].slot, [req EXCEPT ![r] = Thrown(@, e)],
                    others[req[r].slot], 1)
  /\ UNCHANGED <<valVars, sw, dg, rt, pools, poolDsn, poolTenant, nPools, cl>>

\* The HTTP client of the request goes away while the statement runs; nothing
\* in executeQuery observes it.
ClientDisconnect(r) ==
  /\ req[r].pc = "querying"
  /\ ~req[r].gone
  /\ req' = [req EXCEPT ![r].gone = TRUE]
  /\ UNCHANGED <<valVars, sw, dg, rt, poolVars, cl>>

\* The caller has the result; it may call again.
Return(r) ==
  /\ req[r].pc = "done"
  /\ req' = [req EXCEPT ![r] = IdleReq]
  /\ UNCHANGED <<valVars, sw, dg, rt, poolVars, cl>>

\* Other executeQuery calls, not modelled one by one, take every free client
\* of an open pool ...
OtherCallsConnect(p) ==
  /\ poolSt[p] = "open"
  /\ Busy(p) < PoolMax
  /\ others' = [others EXCEPT ![p] = PoolMax - Cardinality(Holders(p))]
  /\ UNCHANGED <<valVars, sw, dg, rt, pools, poolSt, poolDsn, poolTenant, waitq, nPools, req, cl>>

\* ... and release them.
OtherCallsRelease(p) ==
  /\ others[p] > 0
  /\ AfterRelease(p, req, 0, others[p])
  /\ UNCHANGED <<valVars, sw, dg, rt, pools, poolDsn, poolTenant, nPools, cl>>

(***************************************************************************)
(* DatabaseService.closePool                                               *)
(***************************************************************************)
\* Mutation: end() tears the pool down at once, whoever holds a client of it.
PoolEndForced(p) == "ended"

\* pool.end() on an open pool: the pool is ended once its last client is back.
PoolEnd(p) == IF Busy(p) = 0 THEN "ended" ELSE "ending"

\* closePool up to its await: pools.get, pool.end().
ClosePoolCall(c) ==
  /\ cl[c].pc = "idle"
  /\ \E t \in Tenants :
       LET p == pools[t]
       IN  IF p = 0
             THEN /\ cl' = [cl EXCEPT ![c] = [IdleCloser EXCEPT !.pc = "done",
                                                !.tenant = t, !.result = "false"]]
                  /\ UNCHANGED poolSt
             ELSE IF poolSt[p] # "open"
               THEN /\ cl' = [cl EXCEPT ![c] = [IdleCloser EXCEPT !.pc = "done",
                                                  !.tenant = t, !.pool = p,
                                                  !.result = "Failed to close pool"]]
                    /\ UNCHANGED poolSt
               ELSE /\ cl' = [cl EXCEPT ![c] = [IdleCloser EXCEPT !.pc = "awaitEnd",
                                                  !.tenant = t, !.pool = p]]
                    /\ poolSt' = [poolSt EXCEPT ![p] = PoolEnd(p)]
  /\ UNCHANGED <<valVars, sw, dg, rt, pools, poolDsn, poolTenant, others, waitq, nPools, req>>

\* pool.end() resolved: pools.delete(workspaceId), return true.
ClosePoolFinish(c) ==
  /\ cl[c].pc = "awaitEnd"
  /\ poolSt[cl[c].pool] = "ended"
  /\ pools' = [pools EXCEPT ![cl[c].tenant] = 0]
  /\ cl' = [cl EXCEPT ![c].pc = "done", ![c].result = "true"]
  /\ UNCHANGED <<valVars, sw, dg, rt, poolSt, poolDsn, poolTenant, others, waitq, nPools, req>>

ClosePoolReturn(c) ==
  /\ cl[c].pc = "done"
  /\ cl' = [cl EXCEPT ![c] = IdleCloser]
  /\ UNCHANGED <<valVars, sw, dg, rt, poolVars, req>>

(***************************************************************************)
(* DatabaseService.closeAllPools and the SIGTERM handler that awaits it    *)
(***************************************************************************)
\* getActiveWorkspaces(): the keys of the map.
getActiveWorkspaces == {t \in Tenants : pools[t] # 0}

\* closePool(workspaceId) up to its await, as closeAllPools starts it: how the
\* call goes on.  "failed": pool.end() rejects (end was called before), the
\* catch block throws `Failed to close pool`.
closePoolStart(t) ==
  IF pools[t] = 0 THEN "false"
  ELSE IF poolSt[pools[t]] # "open" THEN "failed"
  ELSE "awaitEnd"


\* Promise.all rejects as soon as one closePool promise is rejected.
SweepRejects(sweep) == \E t \in sweep.ids : sweep.sub[t] = "failed"

\* Promise.all resolves once every closePool promise is resolved.
SweepResolves(sweep) == \A t \in sweep.ids : sweep.sub[t] \in {"true", "false"}

\* The process has exited: nothing runs any more.
Exited == \E k \in Sweeps : sw[k].pc = "exited"

\* closeAllPools up to its await: the keys are read, closePool is started for
\* each of them (each runs up to its own await of pool.end()).
CloseAllCall(k) ==
  /\ sw[k].pc = "idle"
  /\ \E from \in {"sigterm", "direct"} :
       LET ids == getActiveWorkspaces
           ending == {pools[t] : t \in {u \in ids : closePoolStart(u) = "awaitEnd"}}
       IN  /\ sw' = [sw EXCEPT ![k] =
                       [pc |-> "awaiting", from |-> from, ids |-> ids,
                        sub |-> [t \in Tenants |->
                                   IF t \in ids THEN closePoolStart(t) ELSE "none"],
                        pool |-> [t \in Tenants |-> IF t \in ids THEN pools[t] ELSE 0],
                        result |-> "none"]]
           /\ poolSt' = [p \in PoolIds |-> IF p \in ending THEN PoolEnd(p) ELSE poolSt[p]]
  /\ UNCHANGED <<valVars, dg, rt, pools, poolDsn, poolTenant, others, waitq, nPools,
                 req, cl>>

\* A closePool call of the sweep goes on after pool.end() resolved:
\* pools.delete(workspaceId), return true.  It does so whether or not the
\* sweep's promise has been settled in the meantime.
SweepPoolClosed(k, t) ==
  /\ sw[k].sub[t] = "awaitEnd"
  /\ poolSt[sw[k].pool[t]] = "ended"
  /\ pools' = [pools EXCEPT ![t] = 0]
  /\ sw' = [sw EXCEPT ![k].sub[t] = "true"]
  /\ UNCHANGED <<valVars, dg, rt, poolSt, poolDsn, poolTenant, others, waitq, nPools,
                 req, cl>>

\* The await of Promise.all is over: closeAllPools returns or throws.
SweepSettle(k) ==
  /\ sw[k].pc = "awaiting"
  /\ \/ SweepRejects(sw[k]) /\ sw' = [sw EXCEPT ![k].pc = "done", ![k].result = "rejected"]
     \/ /\ ~SweepRejects(sw[k])
        /\ SweepResolves(sw[k])
        /\ sw' = [sw EXCEPT ![k].pc = "done", ![k].result = "resolved"]
  /\ UNCHANGED <<valVars, dg, rt, poolVars, req, cl>>

\* The SIGTERM handler after its await: process.exit(0), or process.exit(1)
\* from its catch block.
ShutdownExit(k) ==
  /\ sw[k].pc = "done"
  /\ sw[k].from = "sigterm"
  /\ sw' = [sw EXCEPT ![k].pc = "exited"]
  /\ UNCHANGED <<valVars, dg, rt, poolVars, req, cl>>

(***************************************************************************)
(* The query routes: POST /execute and POST /execute/stream                *)
(***************************************************************************)
\* Number of fragments the model's stream delivers at most.
MaxChunks == 2

\* The caller slot of DatabaseService the route's request uses.
RouteReq == CHOOSE r \in Reqs : \A q \in Reqs : r <= q

fPreamble == <<"H", "e", "r", "e", " ", "i", "s", " ", "t", "h", "e", " ", "S", "Q", "L", ":", " ", "s", "q", "l", ":", " ", "S", "E", "L", "E", "C", "T", " ", "1">>

fExplain == <<";", " ", "e", "x", "p", "l", "a", "n", "a", "t", "i", "o", "n", ":", " ", "r", "e", "t", "u", "r", "n", "s", " ", "o", "n", "e", ".">>

fSql == <<"s", "q", "l", ":", " ", "S", "E", "L", "E", "C", "T", " ", "1">>

fSqlUpper == <<"S", "Q", "L", ":", "\n", " ", "S", "E", "L", "E", "C", "T", " ", "1", " ">>

fDrop == <<";", " ", "D", "R", "O", "P", " ", "T", "A", "B", "L", "E", " ", "t">>

fExplainOnly == <<"E", "x", "p", "l", "a", "n", "a", "t", "i", "o", "n", ":", " ", "n", "o", "n", "e", "\n">>

fTail == <<" ", "F", "R", "O", "M", " ", "t">>

\* The answer of fPreamble and fExplain as one fragment, and an answer cut
\* inside its sql label (fSq, fLabelCut).
fWhole == fPreamble \o fExplain

fSq == <<"s", "q">>

fLabelCut == <<"l", ":", " ", "S", "E", "L", "E", "C", "T", " ", "1", " ", "e", "x", "p", "l", "a", "n", "a", "t", "i", "o", "n", ":", " ", "o", "k">>

Fragments ==
  {fPreamble, fExplain, fSql, fSqlUpper, fDrop, fExplainOnly, fTail, fWhole, fSq,
   fLabelCut}

sqlLabel == <<"s", "q", "l", ":">>

expLabel == <<"e", "x", "p", "l", "a", "n", "a", "t", "i", "o", "n", ":">>

sSchemaQuery == <<"S", "E", "L", "E", "C", "T", " ", "t", "a", "b", "l", "e", "_", "n", "a", "m", "e", " ", "F", "R", "O", "M", " ", "i", "n", "f", "o", "r", "m", "a", "t", "i", "o", "n", "_", "s", "c", "h", "e", "m", "a", ".", "c", "o", "l", "u", "m", "n", "s">>

\* parsedResponse.sql values the model may answer with on POST /execute.
AiStatements == SampleStatements

LineTerminators == {"\n", "\r"}

\* s.replace(/explanation:.*$/i, ''): the leftmost `explanation:` that no line
\* terminator follows is cut off together with the rest of the text.
StripExplanation(s) ==
  LET lower == toLowerCase(s)
      hits == {i \in 0..(Len(s) - Len(expLabel)) :
                 /\ SubSeq(lower, i + 1, i + Len(expLabel)) = expLabel
                 /\ \A j \in (i + Len(expLabel) + 1)..Len(s) : s[j] \notin LineTerminators}
  IN  IF hits = {} THEN s
      ELSE SubSeq(s, 1, CHOOSE i \in hits : \A j \in hits : i <= j)

Event(type, content, partial) == [type |-> type, content |-> content, partial |-> partial]

\* One iteration of the for-await loop of POST /execute/stream on a fragment.
StreamStep(st, content) ==
  LET fullResponse == st.fullResponse \o content
      lowerResponse == toLowerCase(fullResponse)
      sqlStart == indexOf(lowerResponse, sqlLabel)
      expStart == indexOf(lowerResponse, expLabel)
      sqlContent == substring(fullResponse, sqlStart + 4, Len(fullResponse))
      sqlFound == includes(lowerResponse, sqlLabel) /\ st.sqlBuffer = << >>
      sqlBuffer ==
        IF ~sqlFound THEN st.sqlBuffer
        ELSE IF expStart > sqlStart
          THEN trim(substring(sqlContent, 0, expStart - sqlStart - 4))
          ELSE trim(sqlContent)
      section1 ==
        IF ~sqlFound THEN st.currentSection
        ELSE IF expStart > sqlStart THEN "explanation" ELSE "sql"
      expFound == includes(lowerResponse, expLabel) /\ st.explanationBuffer = << >>
      explanationBuffer ==
        IF expFound
          THEN trim(substring(fullResponse, expStart + 12, Len(fullResponse)))
          ELSE st.explanationBuffer
      currentSection == IF expFound THEN "explanation" ELSE section1
      written ==
        IF currentSection = "sql" /\ sqlBuffer # << >>
          THEN << Event("sql", sqlBuffer, TRUE) >>
        ELSE IF currentSection = "explanation" /\ explanationBuffer # << >>
          THEN << Event("explanation", explanationBuffer, TRUE) >>
        ELSE << >>
  IN  [st EXCEPT !.fullResponse = fullResponse, !.sqlBuffer = sqlBuffer,
                 !.explanationBuffer = explanationBuffer,
                 !.currentSection = currentSection, !.chunks = @ + 1,
                 !.events = @ \o written]

\* Mutation: no final parsing: the loop's sqlBuffer stands.
FinalSqlBufferKept(st) == st.sqlBuffer

\* The final parsing of POST /execute/stream once the stream has ended.
FinalSqlBuffer(st) ==
  LET fullResponse == st.fullResponse
      lowerResponse == toLowerCase(fullResponse)
      sqlStart == indexOf(lowerResponse, sqlLabel)
      expStart == indexOf(lowerResponse, expLabel)
      sqlEnd == IF expStart # -1 THEN expStart ELSE Len(fullResponse)
      sqlContent == trim(substring(fullResponse, sqlStart + 4, sqlEnd))
  IN  IF sqlStart # -1 THEN trim(StripExplanation(sqlContent)) ELSE st.sqlBuffer

FinalExplanationBuffer(st) ==
  LET fullResponse == st.fullResponse
      expStart == indexOf(toLowerCase(fullResponse), expLabel)
  IN  IF expStart # -1
        THEN trim(substring(fullResponse, expStart + 12, Len(fullResponse)))
        ELSE st.explanationBuffer

IdleRoute ==
  [pc |-> "off", path |-> "", tenant |-> "", dsn |-> "", fullResponse |-> << >>,
   sqlBuffer |-> << >>, explanationBuffer |-> << >>, currentSection |-> "null",
   chunks |-> 0, examined |-> << >>, verdict |-> NoVerdict, sql |-> << >>,
   dispatched |-> 0, events |-> << >>, response |-> "none", error |-> "none",
   gone |-> FALSE, history |-> "none", lastUsed |-> "none", failHistory |-> "none"]

\* How a route ends: the JSON response or next(error) on POST /execute, the
\* event written before res.end() on POST /execute/stream.
EndOk(st) ==
  IF st.path = "stream"
    THEN [st EXCEPT !.pc = "end", !.response = "complete",
                    !.events = @ \o << Event("complete", << >>, FALSE) >>]
    ELSE [st EXCEPT !.pc = "end", !.response = "200"]

\* Mutation: the stream is ended without the error event.
EndErrorSilent(st, status, error) ==
  [st EXCEPT !.pc = "end", !.response = IF st.path = "stream" THEN "error" ELSE status,
             !.error = error]

EndError(st, status, error) ==
  IF st.path = "stream"
    THEN [st EXCEPT !.pc = "end", !.response = "error", !.error = error,
                    !.events = @ \o << Event("error", << >>, FALSE) >>]
    ELSE [st EXCEPT !.pc = "end", !.response = status, !.error = error]

\* The catch block that saves the failed query to history without awaiting it
\* (POST /execute: every throw; POST /execute/stream: the outer catch).
Caught(st) == [st EXCEPT !.failHistory = "pending"]

\* saveQuery and updateLastUsed are called without await once executeQuery has
\* returned.
StartSideEffects(st) == [st EXCEPT !.history = "pending", !.lastUsed = "pending"]

SideEffects == {"history", "lastUsed", "failHistory"}

\* A side effect settled: saveQuery's rejection goes to its .catch, which logs;
\* updateLastUsed logs its failure itself and resolves.
AfterSideEffect(st, which, result) == [st EXCEPT ![which] = result]

\* Mutation: the final explanation event is left out.
FinalEventsSqlOnly(finalSQL, explanationBuffer) ==
  << Event("sql", finalSQL, FALSE), Event("status", << >>, FALSE) >>

\* The events written once validateSQL accepted finalSQL.
FinalEvents(finalSQL, explanationBuffer) ==
  << Event("sql", finalSQL, FALSE),
     Event("explanation", trim(explanationBuffer), FALSE),
     Event("status", << >>, FALSE) >>

\* What WorkspaceService.getWorkspace throws: "Workspace not found" when the
\* lookup has no row (PGRST116, or no data), "Failed to fetch workspace: ..."
\* on another error of the store.  It never returns a falsy value.
getWorkspaceError(workspace) ==
  IF workspace = "missing" THEN "Workspace not found"
  ELSE "Failed to fetch workspace: upstream unavailable"

\* The handler up to the await of getWorkspace: the request body is read and,
\* on POST /execute/stream, the head of the event stream is written; no event
\* is written yet.
RouteStart ==
  /\ rt.pc = "start"
  /\ rt' = [rt EXCEPT !.pc = "workspace"]
  /\ UNCHANGED <<valVars, sw, dg, poolVars, req, cl>>

\* getWorkspace settled, and the handler runs up to the await of getSchema:
\* the lookup throws into the catch block when there is no workspace, the
\* handler returns early for a workspace without connection string or
\* provider, and otherwise getSchema calls executeQuery.  The branch
\* `if (!workspace)` is never taken.
RouteWorkspace ==
  /\ rt.pc = "workspace"
  /\ \E workspace \in {"found", "missing", "dberror", "noConnectionString", "noProvider"} :
       IF workspace = "found"
         THEN /\ ExecCallCore(RouteReq, rt.tenant, rt.dsn, sSchemaQuery)
              /\ rt' = [rt EXCEPT !.pc = "schema"]
         ELSE /\ rt' = IF workspace \in {"missing", "dberror"}
                         THEN EndError(Caught(rt), "error", getWorkspaceError(workspace))
                         ELSE EndError(rt, "400", workspace)
              /\ UNCHANGED <<poolVars, req>>
  /\ UNCHANGED <<valVars, sw, dg, cl>>

\* getSchema returned or threw.
RouteSchemaDone ==
  /\ rt.pc = "schema"
  /\ req[RouteReq].pc = "done"
  /\ req' = [req EXCEPT ![RouteReq] = IdleReq]
  /\ rt' = IF req[RouteReq].outcome.ok
             THEN [rt EXCEPT !.pc = "generate",
                             !.events = IF rt.path = "stream"
                                          THEN @ \o << Event("schema", << >>, FALSE) >>
                                          ELSE @]
             ELSE EndError(Caught(rt), "error", "Schema retrieval failed")
  /\ UNCHANGED <<valVars, sw, dg, poolVars, cl>>

\* Mutation: the verdict is ignored.
MayExecuteAlways(verdict) == TRUE

\* Whether the text validateSQL examined may go on to the executor.
MayExecute(verdict) == verdict.ok

\* Mutation: generateSQL case-folds the statement it returns.
GeneratedSqlFolded(examined) == toLowerCase(trim(examined))

\* The text generateSQL returns for the statement it validated.
GeneratedSql(examined) == trim(examined)

\* POST /execute: generateSQL answers (the model's statement is validated in
\* it), then executeQuery is called with the statement it returned.
RouteGenerate ==
  /\ rt.pc = "generate"
  /\ rt.path = "execute"
  /\ \E s \in AiStatements :
       LET verdict == validateSQL(s)
       IN  IF s = << >>
             THEN /\ rt' = EndError(Caught(rt), "error",
                                    "OpenAI response missing required fields")
                  /\ UNCHANGED <<poolVars, req>>
           ELSE IF ~MayExecute(verdict)
             THEN /\ rt' = EndError(Caught([rt EXCEPT !.examined = s,
                                                      !.verdict = verdict]),
                                    "error", verdict.kind)
                  /\ UNCHANGED <<poolVars, req>>
           ELSE /\ ExecCallCore(RouteReq, rt.tenant, rt.dsn, GeneratedSql(s))
                /\ rt' = [rt EXCEPT !.pc = "execute", !.examined = s,
                                    !.verdict = verdict, !.sql = GeneratedSql(s),
                                    !.dispatched = @ + 1]
  /\ UNCHANGED <<valVars, sw, dg, cl>>

\* Mutation: a partial sqlBuffer that passes validateSQL is executed as soon as
\* a fragment completes it.
RouteChunkEager ==
  /\ rt.pc = "generate"
  /\ rt.path = "stream"
  /\ rt.chunks < MaxChunks
  /\ \E content \in Fragments :
       LET st == StreamStep(rt, content)
           verdict == validateSQL(st.sqlBuffer)
       IN  IF verdict.ok
             THEN /\ ExecCallCore(RouteReq, rt.tenant, rt.dsn, st.sqlBuffer)
                  /\ rt' = [st EXCEPT !.pc = "execute", !.sql = st.sqlBuffer,
                                      !.examined = st.sqlBuffer, !.verdict = verdict,
                                      !.dispatched = @ + 1]
             ELSE /\ rt' = st
                  /\ UNCHANGED <<poolVars, req>>
  /\ UNCHANGED <<valVars, sw, dg, cl>>

\* POST /execute/stream: the next fragment of the stream arrives.
RouteChunk ==
  /\ rt.pc = "generate"
  /\ rt.path = "stream"
  /\ rt.chunks < MaxChunks
  /\ \E content \in Fragments : rt' = StreamStep(rt, content)
  /\ UNCHANGED <<valVars, sw, dg, poolVars, req, cl>>

\* POST /execute/stream: the stream (or the call that opens it) throws.
RouteStreamFail ==
  /\ rt.pc = "generate"
  /\ rt.path = "stream"
  /\ rt' = EndError(Caught(rt), "error", "AI service error")
  /\ UNCHANGED <<valVars, sw, dg, poolVars, req, cl>>

\* POST /execute/stream: the stream ended: the final parsing, validateSQL, the
\* final sql and explanation events, then executeQuery.
RouteStreamEnd ==
  /\ rt.pc = "generate"
  /\ rt.path = "stream"
  /\ LET sqlBuffer == FinalSqlBuffer(rt)
         explanationBuffer == FinalExplanationBuffer(rt)
         finalSQL == trim(sqlBuffer)
         verdict == validateSQL(finalSQL)
         parsed == [rt EXCEPT !.sqlBuffer = sqlBuffer,
                              !.explanationBuffer = explanationBuffer,
                              !.examined = finalSQL, !.verdict = verdict]
     IN  IF ~MayExecute(verdict)
           THEN /\ rt' = EndError(parsed, "error", verdict.kind)
                /\ UNCHANGED <<poolVars, req>>
           ELSE /\ ExecCallCore(RouteReq, rt.tenant, rt.dsn, finalSQL)
                /\ rt' = [parsed EXCEPT
                            !.pc = "execute", !.sql = finalSQL, !.dispatched = @ + 1,
                            !.events = @ \o FinalEvents(finalSQL, explanationBuffer)]
  /\ UNCHANGED <<valVars, sw, dg, cl>>

\* executeQuery of the generated statement returned or threw.
RouteExecDone ==
  /\ rt.pc = "execute"
  /\ req[RouteReq].pc = "done"
  /\ UNCHANGED req
  /\ rt' = IF req[RouteReq].outcome.ok
             THEN EndOk(StartSideEffects([rt EXCEPT !.events =
                           IF rt.path = "stream"
                             THEN @ \o << Event("results", << >>, FALSE) >>
                             ELSE @]))
             ELSE EndError(IF rt.path = "stream" THEN rt ELSE Caught(rt), "error",
                           req[RouteReq].outcome.message)
  /\ UNCHANGED <<valVars, sw, dg, poolVars, cl>>

\* A side effect that was started settles, with or without failure.  The save
\* of a failed query looks the workspace up again first, on its own, and saves
\* when that lookup finds it; a failure of the lookup or of the save goes to
\* the .catch of the chain, which logs.
RouteSideEffectSettles ==
  /\ \E which \in SideEffects, result \in {"ok", "failed"} :
       /\ rt[which] = "pending"
       /\ rt' = AfterSideEffect(rt, which, result)
  /\ UNCHANGED <<valVars, sw, dg, poolVars, req, cl>>

\* The client closes the connection while the handler runs; the handler has no
\* close listener and goes on.
RouteClientGone ==
  /\ rt.pc \in {"workspace", "schema", "generate", "execute"}
  /\ ~rt.gone
  /\ rt' = [rt EXCEPT !.gone = TRUE]
  /\ UNCHANGED <<valVars, sw, dg, poolVars, req, cl>>

InitRoute ==
  /\ InitValidatorIdle
  /\ InitPools
  /\ \E path \in {"execute", "stream"}, t \in Tenants, d \in Dsns :
       rt = [IdleRoute EXCEPT !.pc = "start", !.path = path, !.tenant = t, !.dsn = d]
  /\ dg = IdleDiag

NextRoute ==
  \/ RouteStart
  \/ RouteWorkspace
  \/ RouteSchemaDone
  \/ RouteGenerate
  \/ RouteChunk
  \/ RouteStreamFail
  \/ RouteStreamEnd
  \/ RouteExecDone
  \/ RouteSideEffectSettles
  \/ RouteClientGone
  \/ ConnectOk(RouteReq)
  \/ ConnectFail(RouteReq)
  \/ QueryOk(RouteReq)
  \/ QueryFail(RouteReq)
  \/ ClientDisconnect(RouteReq)

SpecRoute == InitRoute /\ [][NextRoute]_vars

(***************************************************************************)
(* Concurrent callers of DatabaseService: executeQuery and closePool calls *)
(* interleave at their awaits.                                             *)
(***************************************************************************)
Init == InitValidatorIdle /\ InitPools /\ rt = IdleRoute /\ dg = IdleDiag

Next ==
  \/ \E r \in Reqs : ExecCall(r)
  \/ \E r \in Reqs : ConnectOk(r)
  \/ \E r \in Reqs : ConnectFail(r)
  \/ \E r \in Reqs : AcquireTimeout(r)
  \/ \E r \in Reqs : QueryOk(r)
  \/ \E r \in Reqs : QueryFail(r)
  \/ \E r \in Reqs : ClientDisconnect(r)
  \/ \E r \in Reqs : Return(r)
  \/ \E p \in PoolIds : OtherCallsConnect(p)
  \/ \E p \in PoolIds : OtherCallsRelease(p)
  \/ \E c \in Closers : ClosePoolCall(c)
  \/ \E c \in Closers : ClosePoolFinish(c)
  \/ \E c \in Closers : ClosePoolReturn(c)

Spec == Init /\ [][Next]_vars

(***************************************************************************)
(* Shutdown: closeAllPools calls interleave with executeQuery calls until  *)
(* the process exits.                                                      *)
(***************************************************************************)
\* The connectionString of the callers in this specification.
ShutdownDsn == CHOOSE d \in Dsns : TRUE

ExecCallLive(r) ==
  /\ \E t \in Tenants : ExecCallCore(r, t, ShutdownDsn, sSelect1)
  /\ UNCHANGED <<valVars, sw, dg, rt, cl>>

NextShutdown ==
  \/ \E r \in Reqs : ~Exited /\ ExecCallLive(r)
  \/ \E r \in Reqs : ~Exited /\ ConnectOk(r)
  \/ \E r \in Reqs : ~Exited /\ QueryOk(r)
  \/ \E r \in Reqs : ~Exited /\ QueryFail(r)
  \/ \E r \in Reqs : ~Exited /\ Return(r)
  \/ \E k \in Sweeps : ~Exited /\ CloseAllCall(k)
  \/ \E k \in Sweeps, t \in Tenants : ~Exited /\ SweepPoolClosed(k, t)
  \/ \E k \in Sweeps : ~Exited /\ SweepSettle(k)
  \/ \E k \in Sweeps : ~Exited /\ ShutdownExit(k)

SpecShutdown == Init /\ [][NextShutdown]_vars

(***************************************************************************)
(* The validator on its own: a text is drawn, validateSQL is applied.      *)
(***************************************************************************)
InitValidate ==
  /\ \/ vfam = "keyword" /\ vsql \in KeywordStatements
     \/ vfam = "tautology" /\ vsql \in TautologyStatements
     \/ vfam = "sample" /\ vsql \in SampleStatements
  /\ vres = NoVerdict
  /\ InitPools
  /\ rt = IdleRoute
  /\ dg = IdleDiag

Validate ==
  /\ vres = NoVerdict
  /\ vres' = validateSQL(vsql)
  /\ UNCHANGED <<vsql, vfam, poolVars, req, cl, rt, sw, dg>>

NextValidate == Validate

SpecValidate == InitValidate /\ [][NextValidate]_vars

(***************************************************************************)
(* DatabaseService.maskConnectionString                                    *)
(***************************************************************************)
sStars == <<"*", "*", "*">>

sInvalidConnectionString == <<"[", "I", "N", "V", "A", "L", "I", "D", "_", "C", "O", "N", "N", "E", "C", "T", "I", "O", "N", "_", "S", "T", "R", "I", "N", "G", "]">>

sMaskedConnectionString == <<"[", "M", "A", "S", "K", "E", "D", "_", "C", "O", "N", "N", "E", "C", "T", "I", "O", "N", "_", "S", "T", "R", "I", "N", "G", "]">>

Letters == {LowerSeq[i] : i \in 1..26} \cup {UpperSeq[i] : i \in 1..26}

\* Characters of a URL scheme after its first letter.
SchemeChars == Letters \cup Digits \cup {"+", "-", "."}

\* Characters the URL parser refuses in the host of a URL whose scheme is not
\* one of the special ones (http, https, ws, wss, ftp, file).
ForbiddenHostChars ==
  {" ", "\t", "\n", "\r", "#", "/", ":", "<", ">", "?", "@", "[", "\\", "]", "^", "|"}

\* 1-based position of the first character of s that is in C; Len(s) + 1 if none.
FirstIndex(s, C) ==
  IF \E i \in 1..Len(s) : s[i] \in C
    THEN CHOOSE i \in 1..Len(s) : s[i] \in C /\ \A j \in 1..(i - 1) : s[j] \notin C
    ELSE Len(s) + 1

\* 1-based position of the last character c of s; 0 if none.
LastIndex(s, c) ==
  IF \E i \in 1..Len(s) : s[i] = c
    THEN CHOOSE i \in 1..Len(s) : s[i] = c /\ \A j \in (i + 1)..Len(s) : s[j] # c
    ELSE 0

From(s, i) == SubSeq(s, i, Len(s))

\* The parser first strips leading and trailing C0 control characters and
\* spaces, then removes every tab and newline.
StripUrlInput(s) ==
  LET kept == {i \in 1..Len(s) : s[i] \notin {" ", "\t", "\n", "\r"}}
      first == CHOOSE i \in kept : \A j \in kept : i <= j
      last == CHOOSE i \in kept : \A j \in kept : j <= i
      IsKept(c) == c \notin {"\t", "\n", "\r"}
  IN  IF kept = {} THEN << >> ELSE SelectSeq(SubSeq(s, first, last), IsKept)

\* s.split(c)
RECURSIVE Split(_, _)
Split(s, c) ==
  LET i == FirstIndex(s, {c})
  IN  IF i > Len(s) THEN << s >> ELSE << SubSeq(s, 1, i - 1) >> \o Split(From(s, i + 1), c)

HexDigits == <<"0", "1", "2", "3", "4", "5", "6", "7", "8", "9", "a", "b", "c", "d", "e", "f">>

DigitValue(c) == (CHOOSE i \in 1..Len(HexDigits) : HexDigits[i] = toLowerChar(c)) - 1

\* The number a text of digits denotes in the base.
RECURSIVE NumberOf(_, _)
NumberOf(s, base) ==
  IF s = << >> THEN 0
  ELSE NumberOf(SubSeq(s, 1, Len(s) - 1), base) * base + DigitValue(s[Len(s)])

\* The shortest text of digits that denotes the number in the base.
RECURSIVE TextOf(_, _)
TextOf(n, base) ==
  IF n < base THEN << HexDigits[n + 1] >>
  ELSE TextOf(n \div base, base) \o << HexDigits[(n % base) + 1] >>

\* The text without its leading zeros.
RECURSIVE DropZeros(_)
DropZeros(s) == IF s # << >> /\ s[1] = "0" THEN DropZeros(From(s, 2)) ELSE s

\* Percent-encode sets of the parser, for the printable ASCII characters
\* other than the backquote.
QueryEncodeSet == {" ", "\"", "#", "<", ">"}

FragmentEncodeSet == {" ", "\"", "<", ">"}

PathEncodeSet == QueryEncodeSet \cup {"?", "{", "}"}

UserinfoEncodeSet == PathEncodeSet \cup {"/", ":", ";", "=", "@", "[", "\\", "]", "^", "|"}

PercentCode(c) ==
  CASE c = " " -> <<"%", "2", "0">>
    [] c = "\"" -> <<"%", "2", "2">>
    [] c = "#" -> <<"%", "2", "3">>
    [] c = "<" -> <<"%", "3", "C">>
    [] c = ">" -> <<"%", "3", "E">>
    [] c = "?" -> <<"%", "3", "F">>
    [] c = "{" -> <<"%", "7", "B">>
    [] c = "}" -> <<"%", "7", "D">>
    [] c = "/" -> <<"%", "2", "F">>
    [] c = ":" -> <<"%", "3", "A">>
    [] c = ";" -> <<"%", "3", "B">>
    [] c = "=" -> <<"%", "3", "D">>
    [] c = "@" -> <<"%", "4", "0">>
    [] c = "[" -> <<"%", "5", "B">>
    [] c = "\\" -> <<"%", "5", "C">>
    [] c = "]" -> <<"%", "5", "D">>
    [] c = "^" -> <<"%", "5", "E">>
    [] c = "|" -> <<"%", "7", "C">>
    [] OTHER -> << c >>

RECURSIVE PercentEncode(_, _)
PercentEncode(s, set) ==
  IF s = << >> THEN << >>
  ELSE (IF s[1] \in set THEN PercentCode(s[1]) ELSE << s[1] >>)
       \o PercentEncode(From(s, 2), set)

\* The port as the serializer writes it: a number without leading zeros.
PortText(port) == IF port = << >> THEN << >> ELSE TextOf(NumberOf(DropZeros(port), 10), 10)

\* The last field of an IPv6 address written as an IPv4 address: four decimal
\* numbers up to 255 without leading zeros.
IsIPv4Field(f) ==
  LET parts == Split(f, ".")
  IN  /\ Len(parts) = 4
      /\ \A i \in 1..4 :
           /\ Len(parts[i]) \in 1..3
           /\ \A j \in 1..Len(parts[i]) : parts[i][j] \in Digits
           /\ Len(parts[i]) > 1 => parts[i][1] # "0"
           /\ NumberOf(parts[i], 10) <= 255

IsHexField(f) ==
  /\ Len(f) \in 1..4
  /\ \A i \in 1..Len(f) : \E k \in 1..Len(HexDigits) : HexDigits[k] = toLowerChar(f[i])

\* The 16-bit pieces a list of fields stands for.
RECURSIVE PiecesOf(_)
PiecesOf(fields) ==
  IF fields = << >> THEN << >>
  ELSE IF IsHexField(fields[1]) THEN << NumberOf(fields[1], 16) >> \o PiecesOf(Tail(fields))
  ELSE LET parts == Split(fields[1], ".")
       IN  << NumberOf(parts[1], 10) * 256 + NumberOf(parts[2], 10),
              NumberOf(parts[3], 10) * 256 + NumberOf(parts[4], 10) >>
           \o PiecesOf(Tail(fields))

\* IPv6 parser: the text between the brackets; ok is FALSE where it fails.
IPv6(inner) ==
  LET dbl == indexOf(inner, <<":", ":">>)
      FieldsOf(part) == IF part = << >> THEN << >> ELSE Split(part, ":")
      left == IF dbl = -1 THEN << >> ELSE FieldsOf(SubSeq(inner, 1, dbl))
      right == IF dbl = -1 THEN FieldsOf(inner) ELSE FieldsOf(From(inner, dbl + 3))
      fields == left \o right
      fieldsOk == \A i \in 1..Len(fields) :
                    \/ IsHexField(fields[i])
                    \/ i = Len(fields) /\ right # << >> /\ IsIPv4Field(fields[i])
      count == IF fieldsOk THEN Len(PiecesOf(fields)) ELSE 0
      ok == fieldsOk /\ IF dbl = -1 THEN count = 8 ELSE count <= 7
  IN  [ok |-> ok,
       pieces |-> IF ok THEN PiecesOf(left) \o [i \in 1..(8 - count) |-> 0] \o PiecesOf(right)
                  ELSE << >>]

\* The number of pieces that are 0 from the i-th piece on.
RECURSIVE ZeroRun(_, _)
ZeroRun(pieces, i) ==
  IF i > Len(pieces) \/ pieces[i] # 0 THEN 0 ELSE 1 + ZeroRun(pieces, i + 1)

\* IPv6 serializer: the first longest run of two or more 0 pieces is compressed.
RECURSIVE IPv6From(_, _, _)
IPv6From(pieces, i, compress) ==
  IF i > 8 THEN << >>
  ELSE IF i = compress
    THEN (IF i = 1 THEN <<":", ":">> ELSE <<":">>)
         \o IPv6From(pieces, i + ZeroRun(pieces, i), compress)
  ELSE TextOf(pieces[i], 16) \o (IF i # 8 THEN <<":">> ELSE << >>)
       \o IPv6From(pieces, i + 1, compress)

IPv6Text(pieces) ==
  LET longest == CHOOSE n \in 0..8 :
                   /\ \E i \in 1..9 : ZeroRun(pieces, i) = n
                   /\ \A i \in 1..8 : ZeroRun(pieces, i) <= n
      compress == IF longest < 2 THEN 0
                  ELSE CHOOSE i \in 1..8 :
                         /\ ZeroRun(pieces, i) = longest
                         /\ \A j \in 1..(i - 1) : ZeroRun(pieces, j) < longest
  IN  IPv6From(pieces, 1, compress)

\* Host parser for a scheme that is not special: an IPv6 address in brackets,
\* or an opaque host without forbidden characters.
IPv6Host(address) ==
  IF address.ok
    THEN [ok |-> TRUE, host |-> <<"[">> \o IPv6Text(address.pieces) \o <<"]">>]
    ELSE [ok |-> FALSE, host |-> << >>]

Host(buffer) ==
  IF buffer # << >> /\ buffer[1] = "["
    THEN IF Len(buffer) >= 2 /\ buffer[Len(buffer)] = "]"
           THEN IPv6Host(IPv6(SubSeq(buffer, 2, Len(buffer) - 1)))
           ELSE [ok |-> FALSE, host |-> << >>]
    ELSE [ok |-> \A i \in 1..Len(buffer) : buffer[i] \notin ForbiddenHostChars,
          host |-> buffer]

\* Path state, segment by segment: `.` and `..` are resolved, the other
\* segments percent-encoded.  A last `..` that finds the path empty leaves it
\* empty.
RECURSIVE PathSegments(_, _, _)
PathSegments(segments, i, path) ==
  IF i > Len(segments) THEN path
  ELSE LET buffer == segments[i]
           last == i = Len(segments)
           IsSingleDot == toLowerCase(buffer) \in {<<".">>, <<"%", "2", "e">>}
           IsDoubleDot ==
             toLowerCase(buffer) \in {<<".", ".">>, <<".", "%", "2", "e">>,
                                      <<"%", "2", "e", ".">>,
                                      <<"%", "2", "e", "%", "2", "e">>}
           next == IF IsDoubleDot
                     THEN IF path = << >> THEN path
                          ELSE SubSeq(path, 1, Len(path) - 1)
                               \o (IF last THEN << << >> >> ELSE << >>)
                   ELSE IF IsSingleDot
                     THEN path \o (IF last THEN << << >> >> ELSE << >>)
                   ELSE Append(path, PercentEncode(buffer, PathEncodeSet))
       IN  PathSegments(segments, i + 1, next)

\* The parser's test for a path it takes over as written: no character to
\* encode, no `%` and no dot; or dots but no backslash, the text not starting
\* with a dot and the first `/.` in it followed by a character other than `.`
\* and `/`.  Only the first `/.` is looked at, so a `.` or `..` segment after
\* a segment such as `.b` is kept.
TrivialPath(input) ==
  LET Without(C) == \A i \in 1..Len(input) : input[i] \notin C
      slashdot == indexOf(input, <<"/", ".">>)
  IN  \/ Without(PathEncodeSet \cup {".", "%"})
      \/ /\ Without(PathEncodeSet \cup {"\\", "%"})
         /\ ~Without({"."})
         /\ input[1] # "."
         /\ \/ slashdot = -1
            \/ /\ slashdot + 2 < Len(input)
               /\ input[slashdot + 3] \notin {".", "/"}

\* The segments of the path for the text after its first slash.
PreparedPath(input) ==
  IF TrivialPath(input) THEN Split(input, "/")
  ELSE PathSegments(Split(input, "/"), 1, << >>)

RECURSIVE PathText(_)
PathText(path) ==
  IF path = << >> THEN << >> ELSE <<"/">> \o path[1] \o PathText(Tail(path))

\* The path, query and fragment as the serializer writes them; text starts at
\* the path (at a slash, or at `?`, `#` or the end).
PathQueryFragment(text, hasHost) ==
  LET pathEnd == FirstIndex(text, {"?", "#"})
      pathPart == SubSeq(text, 1, pathEnd - 1)
      tail == From(text, pathEnd)
      hash == FirstIndex(tail, {"#"})
      query == PercentEncode(SubSeq(tail, 1, hash - 1), QueryEncodeSet)
      fragment == IF hash > Len(tail) THEN << >>
                  ELSE <<"#">> \o PercentEncode(From(tail, hash + 1), FragmentEncodeSet)
      path == IF pathPart = << >> THEN << >>
              ELSE PreparedPath(From(pathPart, 2))
      prefix == IF ~hasHost /\ Len(path) > 1 /\ path[1] = << >> THEN <<"/", ".">> ELSE << >>
  IN  prefix \o PathText(path) \o query \o fragment

\* The URL new URL() throws on.
UrlFailure ==
  [ok |-> FALSE, protocol |-> << >>, hasAuthority |-> FALSE, username |-> << >>,
   password |-> << >>, hostname |-> << >>, port |-> << >>, rest |-> << >>]

\* The URL record once the host is parsed: user name and password are split
\* at the first colon and percent-encoded.
UrlOf(protocol, userinfo, host, port, tail) ==
  IF ~host.ok THEN UrlFailure
  ELSE [ok |-> TRUE, protocol |-> protocol, hasAuthority |-> TRUE,
        username |-> PercentEncode(SubSeq(userinfo, 1, FirstIndex(userinfo, {":"}) - 1),
                                   UserinfoEncodeSet),
        password |-> PercentEncode(From(userinfo, FirstIndex(userinfo, {":"}) + 1),
                                   UserinfoEncodeSet),
        hostname |-> host.host, port |-> PortText(port),
        rest |-> PathQueryFragment(tail, TRUE)]

\* Host and port states: an empty host is a failure after an `@` or before a
\* `:`; the port is of digits only and at most 65535.
PortState(protocol, userinfo, atSignSeen, buffer, colonSeen, port, tail) ==
  IF \/ buffer = << >> /\ (atSignSeen \/ colonSeen)
     \/ \E i \in 1..Len(port) : port[i] \notin Digits
     \/ Len(DropZeros(port)) > 5
     \/ NumberOf(DropZeros(port), 10) > 65535
    THEN UrlFailure
    ELSE UrlOf(protocol, userinfo, Host(buffer), port, tail)

\* Host state: the host ends at the first colon outside brackets.
HostState(protocol, userinfo, atSignSeen, hostport, tail) ==
  LET close == FirstIndex(hostport, {"]"})
      portSep == IF hostport = << >> \/ hostport[1] # "[" THEN FirstIndex(hostport, {":"})
                 ELSE IF close > Len(hostport) THEN Len(hostport) + 1
                 ELSE close + FirstIndex(From(hostport, close + 1), {":"})
  IN  PortState(protocol, userinfo, atSignSeen, SubSeq(hostport, 1, portSep - 1),
                portSep <= Len(hostport), From(hostport, portSep + 1), tail)

\* Authority state: the authority ends at the first `/`, `?` or `#`; the
\* last `@` in it ends the user name and password.
AuthorityState(protocol, afterSlashes) ==
  LET authorityEnd == FirstIndex(afterSlashes, {"/", "?", "#"})
      at == LastIndex(SubSeq(afterSlashes, 1, authorityEnd - 1), "@")
  IN  HostState(protocol, SubSeq(afterSlashes, 1, at - 1), at > 0,
                SubSeq(afterSlashes, at + 1, authorityEnd - 1),
                From(afterSlashes, authorityEnd))

\* After the scheme: `//` starts an authority, `/` a path without a host,
\* anything else is an opaque path, kept as written.
AfterScheme(protocol, rest) ==
  IF startsWith(rest, <<"/", "/">>) THEN AuthorityState(protocol, From(rest, 3))
  ELSE [ok |-> TRUE, protocol |-> protocol, hasAuthority |-> FALSE,
        username |-> << >>, password |-> << >>, hostname |-> << >>, port |-> << >>,
        rest |-> IF startsWith(rest, <<"/">>)
                   THEN PathQueryFragment(rest, FALSE)
                   ELSE SubSeq(rest, 1, FirstIndex(rest, {"?", "#"}) - 1)
                        \o PathQueryFragment(From(rest, FirstIndex(rest, {"?", "#"})), TRUE)]

\* Scheme state: a letter, then letters, digits, `+`, `-` and `.` up to the
\* first colon; the scheme is lower-cased.
SchemeState(s) ==
  LET colon == FirstIndex(s, {":"})
  IN  IF /\ colon <= Len(s)
         /\ colon > 1
         /\ s[1] \in Letters
         /\ \A i \in 2..(colon - 1) : s[i] \in SchemeChars
        THEN AfterScheme(toLowerCase(SubSeq(s, 1, colon - 1)), From(s, colon + 1))
        ELSE UrlFailure

\* new URL(connectionString) for the schemes of connection strings (postgres:,
\* postgresql:, and every scheme other than the special ones http, https, ws,
\* wss, ftp and file), as node 18, 20 and 22 parse it (node 14 and 16 differ
\* in the two cases named at PathSegments and TrivialPath, where they resolve
\* every `.` and `..` and write `/` for an emptied path): ok is FALSE where it
\* throws.  The texts are of printable
\* ASCII characters other than the backquote, of tabs and of newlines, and
\* have no `^` in a path.
URL(input) == SchemeState(StripUrlInput(input))

\* url.toString()
UrlToString(url) ==
  IF ~url.hasAuthority THEN url.protocol \o <<":">> \o url.rest
  ELSE url.protocol \o <<":", "/", "/">>
       \o (IF url.username = << >> /\ url.password = << >> THEN << >>
           ELSE url.username
                \o (IF url.password = << >> THEN << >> ELSE <<":">> \o url.password)
                \o <<"@">>)
       \o url.hostname
       \o (IF url.port = << >> THEN << >> ELSE <<":">> \o url.port)
       \o url.rest

\* url.hostname.split('.') and the host that is put in its place.
MaskedHostname(hostname) ==
  IF FirstIndex(hostname, {"."}) <= Len(hostname)
    THEN SubSeq(hostname, 1, FirstIndex(hostname, {"."}) - 1) \o <<".">> \o sStars
    ELSE sStars

\* The try block once new URL() has returned or thrown: password and host are
\* assigned, the URL is written out; the placeholder where it threw.
MaskedUrl(url) ==
  IF url.ok
    THEN UrlToString([url EXCEPT
                        !.password = IF @ # << >> THEN sStars ELSE @,
                        !.hostname = IF @ # << >> THEN MaskedHostname(@) ELSE @])
    ELSE sMaskedConnectionString

maskConnectionString(connectionString) ==
  IF connectionString = << >> THEN sInvalidConnectionString
  ELSE MaskedUrl(URL(connectionString))

\* Connection strings: user names, passwords, hosts and ports to build them
\* from, connection strings the parser rewrites, and texts that are no
\* connection string.
DsnUsers == {<< >>, <<"u">>, <<"a", "d", "m", "i", "n">>}

DsnPasswords == {<< >>, <<"p", "w", "1">>, <<"s", "3", "c", "r", "e", "t">>}

DsnHosts == {<<"d", "b">>, <<"d", "b", ".", "a", ".", "c", "o", "m">>, <<"d", "b", ".", "b", ".", "o", "r", "g">>, <<"1", "0", ".", "0", ".", "0", ".", "5">>,
             <<"[", ":", ":", "1", "]">>}

DsnPorts == {<< >>, <<"5", "4", "3", "2">>}

DsnParts == [username : DsnUsers, password : DsnPasswords, hostname : DsnHosts,
             port : DsnPorts]

\* The connection string with the given parts, as a client library writes it.
Dsn(parts) ==
  <<"p", "o", "s", "t", "g", "r", "e", "s", "q", "l", ":", "/", "/">>
  \o (IF parts.username = << >> /\ parts.password = << >> THEN << >>
      ELSE parts.username
           \o (IF parts.password = << >> THEN << >> ELSE <<":">> \o parts.password)
           \o <<"@">>)
  \o parts.hostname
  \o (IF parts.port = << >> THEN << >> ELSE <<":">> \o parts.port)
  \o <<"/", "x">>

NoParts == [username |-> << >>, password |-> << >>, hostname |-> << >>, port |-> << >>]

\* Texts new URL() throws on, and the empty text.
BadDsns ==
  { << >>, <<"d", "b", ".", "a", ".", "c", "o", "m", "/", "x">>, <<"p", "o", "s", "t", "g", "r", "e", "s", "q", "l", ":", "/", "/", "u", ":", "p", "w", "1", "@", "d", "b", " ", "a", ".", "c", "o", "m", "/", "x">>,
    <<"p", "o", "s", "t", "g", "r", "e", "s", "q", "l", ":", "/", "/", "u", ":", "p", "w", "1", "@", "/", "x">>, <<"p", "o", "s", "t", "g", "r", "e", "s", "q", "l", ":", "/", "/", "d", "b", ".", "a", ".", "c", "o", "m", ":", "5", "4", "x", "/", "x">>,
    <<"p", "o", "s", "t", "g", "r", "e", "s", "q", "l", ":", "/", "/", "u", ":", "p", "w", "1", "@", "d", "b", ".", "a", ".", "c", "o", "m", ":", "9", "9", "9", "9", "9", "/", "x">>,
    <<"p", "o", "s", "t", "g", "r", "e", "s", "q", "l", ":", "/", "/", "u", ":", "p", "w", "1", "@", "[", ":", ":", "1", "/", "x">> }

\* Connection strings written otherwise than Dsn writes them (blanks around
\* the text, a tab or a newline in it, capitals in the scheme, zeros before
\* the port, an IPv6 host in full, an `@` in the user name, a `.` segment),
\* each with the parts new URL() makes of it.
WrittenDsns ==
  { [parts |-> [username |-> <<"u">>, password |-> <<"p", "w", "1">>, hostname |-> <<"d", "b", ".", "a", ".", "c", "o", "m">>,
                port |-> <<"5", "4", "3", "2">>],
     text |-> <<" ", "p", "o", "s", "t", "g", "r", "e", "s", "q", "l", ":", "/", "/", "u", ":", "p", "w", "1", "@", "d", "b", ".", "a", ".", "c", "o", "m", ":", "0", "5", "4", "3", "2", "/", "x", "\n">>],
    [parts |-> [username |-> <<"u">>, password |-> <<"p", "w", "1">>, hostname |-> <<"d", "b", ".", "a", ".", "c", "o", "m">>,
                port |-> << >>],
     text |-> <<"p", "o", "s", "t", "g", "r", "e", "s", "q", "l", ":", "/", "/", "u", ":", "p", "w", "1", "@", "d", "\t", "b", ".", "a", ".", "c", "o", "m", ":", "/", "x">>],
    [parts |-> [username |-> <<"u">>, password |-> <<"p", "w", "1">>, hostname |-> <<"[", ":", ":", "1", "]">>,
                port |-> <<"5", "4", "3", "2">>],
     text |-> <<"P", "o", "s", "t", "g", "r", "e", "S", "Q", "L", ":", "/", "/", "u", ":", "p", "w", "1", "@", "[", "0", ":", "0", ":", "0", ":", "0", ":", "0", ":", "0", ":", "0", ":", "1", "]", ":", "5", "4", "3", "2", "/", "x">>],
    [parts |-> [username |-> <<"a", "%", "4", "0", "b">>, password |-> <<"s", "3", "c", "r", "e", "t">>, hostname |-> <<"d", "b", ".", "b", ".", "o", "r", "g">>,
                port |-> <<"0">>],
     text |-> <<"\t", "p", "o", "s", "t", "g", "r", "e", "s", "q", "l", ":", "/", "/", "a", "@", "b", ":", "s", "3", "c", "r", "e", "t", "@", "d", "b", ".", "b", ".", "o", "r", "g", ":", "0", "0", "0", "/", ".", "/", "x", " ">>] }

FirstLabel(hostname) == SubSeq(hostname, 1, FirstIndex(hostname, {"."}) - 1)

(***************************************************************************)
(* What executeQuery and getSchema log and throw for a caught error, as     *)
(* texts.                                                                  *)
(***************************************************************************)
sUnknown == <<"U", "N", "K", "N", "O", "W", "N">>

sExceedsMaxRows == <<"e", "x", "c", "e", "e", "d", "s", " ", "m", "a", "x", "i", "m", "u", "m", " ", "a", "l", "l", "o", "w", "e", "d", " ", "r", "o", "w", "s">>

sTimeout == <<"t", "i", "m", "e", "o", "u", "t">>

sRowLimitText ==
  <<"Q", "u", "e", "r", "y", " ", "r", "e", "s", "u", "l", "t", " ", "e", "x", "c", "e", "e", "d", "s", " ", "m", "a", "x", "i", "m", "u", "m", " ", "a", "l", "l", "o", "w", "e", "d", " ", "r", "o", "w", "s", " ", "(", "1", "0", "0", "0", "0", ")", ".", " ", "P", "l", "e", "a", "s", "e", " ", "a", "d", "d", " ", "L", "I", "M", "I", "T", " ", "c", "l", "a", "u", "s", "e", " ", "o", "r", " ", "u", "s", "e", " ", "p", "a", "g", "i", "n", "a", "t", "i", "o", "n", " ", "t", "o", " ", "r", "e", "d", "u", "c", "e", " ", "r", "e", "s", "u", "l", "t", " ", "s", "e", "t", " ", "s", "i", "z", "e", ".">>

DriverError(code, message) == [code |-> code, message |-> message]

NoDriverError == DriverError(<< >>, << >>)

\* Errors pool.connect() and client.query() reject with for a connection string
\* with the given parts (node's DNS errors name the host they looked up, the
\* server's authentication error names the user), and the row-limit error.
DriverErrors(parts) ==
  { DriverError(<<"E", "N", "O", "T", "F", "O", "U", "N", "D">>, <<"g", "e", "t", "a", "d", "d", "r", "i", "n", "f", "o", " ", "E", "N", "O", "T", "F", "O", "U", "N", "D", " ">> \o parts.hostname),
    DriverError(<<"E", "A", "I", "_", "A", "G", "A", "I", "N">>, <<"g", "e", "t", "a", "d", "d", "r", "i", "n", "f", "o", " ", "E", "A", "I", "_", "A", "G", "A", "I", "N", " ">> \o parts.hostname),
    DriverError(<<"E", "C", "O", "N", "N", "R", "E", "F", "U", "S", "E", "D">>, <<"c", "o", "n", "n", "e", "c", "t", " ", "E", "C", "O", "N", "N", "R", "E", "F", "U", "S", "E", "D", " ", "1", "2", "7", ".", "0", ".", "0", ".", "1", ":", "5", "4", "3", "2">>),
    DriverError(<<"2", "8", "P", "0", "1">>,
                <<"p", "a", "s", "s", "w", "o", "r", "d", " ", "a", "u", "t", "h", "e", "n", "t", "i", "c", "a", "t", "i", "o", "n", " ", "f", "a", "i", "l", "e", "d", " ", "f", "o", "r", " ", "u", "s", "e", "r", " ", "\"">> \o parts.username \o <<"\"">>),
    DriverError(<<"4", "2", "6", "0", "1">>, <<"s", "y", "n", "t", "a", "x", " ", "e", "r", "r", "o", "r", " ", "a", "t", " ", "o", "r", " ", "n", "e", "a", "r", " ", "\"", "F", "O", "R", "M", "\"">>),
    DriverError(<< >>, <<"t", "i", "m", "e", "o", "u", "t", " ", "e", "x", "c", "e", "e", "d", "e", "d", " ", "w", "h", "e", "n", " ", "t", "r", "y", "i", "n", "g", " ", "t", "o", " ", "c", "o", "n", "n", "e", "c", "t">>),
    DriverError(<<"4", "2", "P", "0", "1">>,
                <<"r", "e", "l", "a", "t", "i", "o", "n", " ", "\"", "e", "x", "c", "e", "e", "d", "s", " ", "m", "a", "x", "i", "m", "u", "m", " ", "a", "l", "l", "o", "w", "e", "d", " ", "r", "o", "w", "s", "\"", " ", "d", "o", "e", "s", " ", "n", "o", "t", " ", "e", "x", "i", "s", "t">>),
    DriverError(<<"4", "2", "P", "0", "1">>, <<"r", "e", "l", "a", "t", "i", "o", "n", " ", "\"", "t", "\"", " ", "d", "o", "e", "s", " ", "n", "o", "t", " ", "e", "x", "i", "s", "t">>),
    DriverError(<<"3", "D", "0", "0", "0">>, <<"d", "a", "t", "a", "b", "a", "s", "e", " ", "\"", "x", "\"", " ", "d", "o", "e", "s", " ", "n", "o", "t", " ", "e", "x", "i", "s", "t">>),
    DriverError(<<"2", "3", "5", "0", "5">>, <<"d", "u", "p", "l", "i", "c", "a", "t", "e", " ", "k", "e", "y", " ", "v", "a", "l", "u", "e", " ", "v", "i", "o", "l", "a", "t", "e", "s", " ", "u", "n", "i", "q", "u", "e", " ", "c", "o", "n", "s", "t", "r", "a", "i", "n", "t", " ", "\"", "t", "_", "p", "k", "e", "y", "\"">>),
    DriverError(<<"2", "3", "5", "0", "3">>, <<"i", "n", "s", "e", "r", "t", " ", "o", "r", " ", "u", "p", "d", "a", "t", "e", " ", "o", "n", " ", "t", "a", "b", "l", "e", " ", "\"", "t", "\"", " ", "v", "i", "o", "l", "a", "t", "e", "s", " ", "f", "o", "r", "e", "i", "g", "n", " ", "k", "e", "y", " ", "c", "o", "n", "s", "t", "r", "a", "i", "n", "t", " ", "\"", "t", "_", "f", "k", "\"">>),
    DriverError(<<"5", "7", "0", "1", "4">>, <<"c", "a", "n", "c", "e", "l", "i", "n", "g", " ", "s", "t", "a", "t", "e", "m", "e", "n", "t", " ", "d", "u", "e", " ", "t", "o", " ", "s", "t", "a", "t", "e", "m", "e", "n", "t", " ", "t", "i", "m", "e", "o", "u", "t">>),
    DriverError(<<"2", "2", "0", "1", "2">>, <<"d", "i", "v", "i", "s", "i", "o", "n", " ", "b", "y", " ", "z", "e", "r", "o">>),
    DriverError(<<"E", "T", "I", "M", "E", "D", "O", "U", "T">>, <<"c", "o", "n", "n", "e", "c", "t", " ", "E", "T", "I", "M", "E", "D", "O", "U", "T", " ", "1", "0", ".", "0", ".", "0", ".", "5", ":", "5", "4", "3", "2">>),
    DriverError(<< >>, sRowLimitText) }

\* The errorMessage the catch block of executeQuery chooses.
errorMessage(error) ==
  IF error.code = <<"E", "C", "O", "N", "N", "R", "E", "F", "U", "S", "E", "D">>
    THEN <<"D", "a", "t", "a", "b", "a", "s", "e", " ", "c", "o", "n", "n", "e", "c", "t", "i", "o", "n", " ", "r", "e", "f", "u", "s", "e", "d", " ", "-", " ", "c", "h", "e", "c", "k", " ", "i", "f", " ", "d", "a", "t", "a", "b", "a", "s", "e", " ", "i", "s", " ", "r", "u", "n", "n", "i", "n", "g">>
  ELSE IF error.code = <<"E", "N", "O", "T", "F", "O", "U", "N", "D">>
    THEN <<"D", "a", "t", "a", "b", "a", "s", "e", " ", "h", "o", "s", "t", " ", "n", "o", "t", " ", "f", "o", "u", "n", "d", " ", "-", " ", "c", "h", "e", "c", "k", " ", "c", "o", "n", "n", "e", "c", "t", "i", "o", "n", " ", "s", "t", "r", "i", "n", "g">>
  ELSE IF error.code = <<"2", "8", "P", "0", "1">>
    THEN <<"D", "a", "t", "a", "b", "a", "s", "e", " ", "a", "u", "t", "h", "e", "n", "t", "i", "c", "a", "t", "i", "o", "n", " ", "f", "a", "i", "l", "e", "d", " ", "-", " ", "c", "h", "e", "c", "k", " ", "u", "s", "e", "r", "n", "a", "m", "e", "/", "p", "a", "s", "s", "w", "o", "r", "d">>
  ELSE IF error.code = <<"3", "D", "0", "0", "0">>
    THEN <<"D", "a", "t", "a", "b", "a", "s", "e", " ", "d", "o", "e", "s", " ", "n", "o", "t", " ", "e", "x", "i", "s", "t", " ", "-", " ", "c", "h", "e", "c", "k", " ", "d", "a", "t", "a", "b", "a", "s", "e", " ", "n", "a", "m", "e">>
  ELSE IF error.code = <<"4", "2", "P", "0", "1">>
    THEN <<"T", "a", "b", "l", "e", " ", "d", "o", "e", "s", " ", "n", "o", "t", " ", "e", "x", "i", "s", "t", " ", "-", " ", "c", "h", "e", "c", "k", " ", "t", "a", "b", "l", "e", " ", "n", "a", "m", "e">>
  ELSE IF error.code = <<"4", "2", "6", "0", "1">>
    THEN <<"S", "Q", "L", " ", "s", "y", "n", "t", "a", "x", " ", "e", "r", "r", "o", "r", " ", "-", " ", "c", "h", "e", "c", "k", " ", "q", "u", "e", "r", "y", " ", "s", "y", "n", "t", "a", "x">>
  ELSE IF error.code = <<"2", "3", "5", "0", "5">>
    THEN <<"D", "u", "p", "l", "i", "c", "a", "t", "e", " ", "k", "e", "y", " ", "v", "i", "o", "l", "a", "t", "i", "o", "n", " ", "-", " ", "u", "n", "i", "q", "u", "e", " ", "c", "o", "n", "s", "t", "r", "a", "i", "n", "t", " ", "f", "a", "i", "l", "e", "d">>
  ELSE IF error.code = <<"2", "3", "5", "0", "3">>
    THEN <<"F", "o", "r", "e", "i", "g", "n", " ", "k", "e", "y", " ", "v", "i", "o", "l", "a", "t", "i", "o", "n", " ", "-", " ", "r", "e", "f", "e", "r", "e", "n", "c", "e", "d", " ", "r", "e", "c", "o", "r", "d", " ", "d", "o", "e", "s", " ", "n", "o", "t", " ", "e", "x", "i", "s", "t">>
  ELSE IF includes(error.message, sTimeout)
    THEN <<"Q", "u", "e", "r", "y", " ", "t", "i", "m", "e", "o", "u", "t", " ", "-", " ", "q", "u", "e", "r", "y", " ", "t", "o", "o", "k", " ", "t", "o", "o", " ", "l", "o", "n", "g", " ", "t", "o", " ", "e", "x", "e", "c", "u", "t", "e">>
  ELSE <<"D", "a", "t", "a", "b", "a", "s", "e", " ", "e", "r", "r", "o", "r", ":", " ">> \o error.message


\* The connection string as the catch block logs it.
LoggedConnection(connectionString) == maskConnectionString(connectionString)

\* The catch block of executeQuery: the texts given to console.error (the
\* caught error's message, the connection line) and the message of the Error
\* that is thrown.
CatchBlock(error, connectionString) ==
  [ logs |-> << error.message,
                <<"C", "o", "n", "n", "e", "c", "t", "i", "o", "n", ":", " ">> \o LoggedConnection(connectionString) >>,
    thrown |-> IF includes(error.message, sExceedsMaxRows)
                 THEN error.message
                 ELSE errorMessage(error) \o <<" ", "(">>
                      \o (IF error.code = << >> THEN sUnknown ELSE error.code)
                      \o <<")">> ]

\* The errorMessage the catch block of testConnection chooses.
testConnectionErrorMessage(error) ==
  IF error.code = <<"E", "C", "O", "N", "N", "R", "E", "F", "U", "S", "E", "D">>
    THEN <<"C", "o", "n", "n", "e", "c", "t", "i", "o", "n", " ", "r", "e", "f", "u", "s", "e", "d", " ", "-", " ", "d", "a", "t", "a", "b", "a", "s", "e", " ", "s", "e", "r", "v", "e", "r", " ", "i", "s", " ", "n", "o", "t", " ", "r", "u", "n", "n", "i", "n", "g", " ", "o", "r", " ", "n", "o", "t", " ", "a", "c", "c", "e", "s", "s", "i", "b", "l", "e">>
  ELSE IF error.code = <<"E", "N", "O", "T", "F", "O", "U", "N", "D">>
    THEN <<"H", "o", "s", "t", " ", "n", "o", "t", " ", "f", "o", "u", "n", "d", " ", "-", " ", "c", "h", "e", "c", "k", " ", "d", "a", "t", "a", "b", "a", "s", "e", " ", "h", "o", "s", "t", " ", "i", "n", " ", "c", "o", "n", "n", "e", "c", "t", "i", "o", "n", " ", "s", "t", "r", "i", "n", "g">>
  ELSE IF error.code = <<"2", "8", "P", "0", "1">>
    THEN <<"A", "u", "t", "h", "e", "n", "t", "i", "c", "a", "t", "i", "o", "n", " ", "f", "a", "i", "l", "e", "d", " ", "-", " ", "c", "h", "e", "c", "k", " ", "u", "s", "e", "r", "n", "a", "m", "e", " ", "a", "n", "d", " ", "p", "a", "s", "s", "w", "o", "r", "d">>
  ELSE IF error.code = <<"3", "D", "0", "0", "0">>
    THEN <<"D", "a", "t", "a", "b", "a", "s", "e", " ", "d", "o", "e", "s", " ", "n", "o", "t", " ", "e", "x", "i", "s", "t", " ", "-", " ", "c", "h", "e", "c", "k", " ", "d", "a", "t", "a", "b", "a", "s", "e", " ", "n", "a", "m", "e">>
  ELSE IF error.code = <<"E", "T", "I", "M", "E", "D", "O", "U", "T">>
    THEN <<"C", "o", "n", "n", "e", "c", "t", "i", "o", "n", " ", "t", "i", "m", "e", "o", "u", "t", " ", "-", " ", "d", "a", "t", "a", "b", "a", "s", "e", " ", "s", "e", "r", "v", "e", "r", " ", "i", "s", " ", "n", "o", "t", " ", "r", "e", "s", "p", "o", "n", "d", "i", "n", "g">>
  ELSE <<"C", "o", "n", "n", "e", "c", "t", "i", "o", "n", " ", "e", "r", "r", "o", "r", ":", " ">> \o error.message

\* The catch block of testConnection: the texts given to console.error and
\* the message of the Error that is thrown.
testConnectionCatch(error, connectionString) ==
  [ logs |-> << error.message,
                <<"C", "o", "n", "n", "e", "c", "t", "i", "o", "n", ":", " ">> \o maskConnectionString(connectionString) >>,
    thrown |-> testConnectionErrorMessage(error) \o <<" ", "(">>
               \o (IF error.code = << >> THEN sUnknown ELSE error.code)
               \o <<")">> ]

\* testConnection(connectionString), error being what pool.connect() or
\* client.query('SELECT 1') rejected with (NoDriverError: both resolved).  The
\* empty text is thrown on inside the try block and caught by the same catch
\* block.  The Pool is a local of the call: it is not put in this.pools, and
\* the finally block releases the client and ends the pool.
testConnection(connectionString, error) ==
  IF connectionString = << >>
    THEN testConnectionCatch(
           DriverError(<< >>, <<"C", "o", "n", "n", "e", "c", "t", "i", "o", "n", " ", "s", "t", "r", "i", "n", "g", " ", "m", "u", "s", "t", " ", "b", "e", " ", "a", " ", "n", "o", "n", "-", "e", "m", "p", "t", "y", " ", "s", "t", "r", "i", "n", "g">>),
           connectionString)
  ELSE IF error = NoDriverError
    THEN [ logs |-> << <<"D", "a", "t", "a", "b", "a", "s", "e", " ", "c", "o", "n", "n", "e", "c", "t", "i", "o", "n", " ", "t", "e", "s", "t", " ", "s", "u", "c", "c", "e", "s", "s", "f", "u", "l">>,
                       <<"C", "o", "n", "n", "e", "c", "t", "i", "o", "n", ":", " ">> \o maskConnectionString(connectionString) >>,
           thrown |-> << >> ]
  ELSE testConnectionCatch(error, connectionString)

\* The catch block of getSchema on the Error executeQuery threw.
getSchemaCatch(caught) ==
  [ logs |-> caught.logs \o << caught.thrown >>,
    thrown |-> <<"S", "c", "h", "e", "m", "a", " ", "r", "e", "t", "r", "i", "e", "v", "a", "l", " ", "f", "a", "i", "l", "e", "d", ":", " ">> \o caught.thrown ]

(***************************************************************************)
(* Diagnostics on their own: connection strings and driver errors are      *)
(* drawn, maskConnectionString, testConnection and the catch blocks are     *)
(* applied.                                                                *)
(***************************************************************************)
DiagInput(kind, a, b, dsnA, dsnB, error) ==
  [pc |-> "input", kind |-> kind, a |-> a, b |-> b, dsnA |-> dsnA, dsnB |-> dsnB,
   error |-> error, outA |-> << >>, outB |-> << >>, logs |-> << >>, thrown |-> << >>]

InitDiag ==
  /\ InitValidatorIdle
  /\ InitPools
  /\ rt = IdleRoute
  /\ \/ \E a \in DsnParts, b \in DsnParts :
          /\ b.port = a.port
          /\ FirstLabel(b.hostname) = FirstLabel(a.hostname)
          /\ dg = DiagInput("pair", a, b, Dsn(a), Dsn(b), NoDriverError)
     \/ \E w \in WrittenDsns :
          dg = DiagInput("written", w.parts, w.parts, w.text, w.text, NoDriverError)
     \/ \E s \in BadDsns : dg = DiagInput("bad", NoParts, NoParts, s, s, NoDriverError)
     \/ \E a \in DsnParts :
          \E e \in DriverErrors(a) : dg = DiagInput("error", a, a, Dsn(a), Dsn(a), e)

\* maskConnectionString is applied to the connection strings.
MaskDsns ==
  /\ dg.pc = "input"
  /\ dg.kind \in {"pair", "written", "bad"}
  /\ dg' = [dg EXCEPT !.pc = "masked", !.outA = maskConnectionString(dg.dsnA),
                      !.outB = maskConnectionString(dg.dsnB)]
  /\ UNCHANGED <<valVars, poolVars, req, cl, rt, sw>>

\* executeQuery catches the driver's error.
ExecCatch ==
  /\ dg.pc = "input"
  /\ dg.kind = "error"
  /\ LET caught == CatchBlock(dg.error, dg.dsnA)
     IN  dg' = [dg EXCEPT !.pc = "caught", !.logs = caught.logs, !.thrown = caught.thrown]
  /\ UNCHANGED <<valVars, poolVars, req, cl, rt, sw>>

\* The call was getSchema's: its catch block wraps the Error.
SchemaCatch ==
  /\ dg.pc = "caught"
  /\ LET wrapped == getSchemaCatch([logs |-> dg.logs, thrown |-> dg.thrown])
     IN  dg' = [dg EXCEPT !.pc = "wrapped", !.logs = wrapped.logs,
                         !.thrown = wrapped.thrown]
  /\ UNCHANGED <<valVars, poolVars, req, cl, rt, sw>>

\* testConnection is called with the connection string and runs up to its
\* first await; the texts new URL() rejects are left to the driver's own parser
\* and are not tried, but for the empty one.  The empty text is thrown on and
\* caught before a Pool exists, so the finally block awaits nothing and the
\* Error reaches the caller in the same step; otherwise the Pool is made and
\* pool.connect() is awaited.
TestConnection ==
  /\ dg.pc = "input"
  /\ dg.kind = "bad" => dg.dsnA = << >>
  /\ LET tested == testConnection(dg.dsnA, dg.error)
     IN  dg' = IF dg.dsnA = << >>
                 THEN [dg EXCEPT !.pc = "tested", !.logs = tested.logs,
                                 !.thrown = tested.thrown]
                 ELSE [dg EXCEPT !.pc = "connecting"]
  /\ UNCHANGED <<valVars, poolVars, req, cl, rt, sw>>

\* pool.connect() settled: it resolved and client.query('SELECT 1') is
\* awaited, or it rejected with the driver's error and the catch block logged.
TestConnectionConnected ==
  /\ dg.pc = "connecting"
  /\ \/ dg' = [dg EXCEPT !.pc = "querying"]
     \/ /\ dg.error # NoDriverError
        /\ dg' = [dg EXCEPT !.pc = "ending",
                            !.logs = testConnection(dg.dsnA, dg.error).logs]
  /\ UNCHANGED <<valVars, poolVars, req, cl, rt, sw>>

\* client.query('SELECT 1') settled: the success is logged, or the catch block
\* logged the driver's error; the finally block released the client and
\* awaits pool.end().
TestConnectionQueried ==
  /\ dg.pc = "querying"
  /\ dg' = [dg EXCEPT !.pc = "ending",
                      !.logs = testConnection(dg.dsnA, dg.error).logs]
  /\ UNCHANGED <<valVars, poolVars, req, cl, rt, sw>>

\* pool.end() resolved (the Pool is a local that was ended once): true is
\* returned or the Error of the catch block reaches the caller.
TestConnectionEnded ==
  /\ dg.pc = "ending"
  /\ dg' = [dg EXCEPT !.pc = "tested",
                      !.thrown = testConnection(dg.dsnA, dg.error).thrown]
  /\ UNCHANGED <<valVars, poolVars, req, cl, rt, sw>>

NextDiag ==
  \/ MaskDsns
  \/ TestConnection
  \/ TestConnectionConnected
  \/ TestConnectionQueried
  \/ TestConnectionEnded
  \/ ExecCatch
  \/ SchemaCatch

SpecDiag == InitDiag /\ [][NextDiag]_vars

(***************************************************************************)
(* Properties.                                                             *)
(***************************************************************************)
Validated == vres # NoVerdict

\* The keyword occurs in s, in any letter case, with no word character on
\* either side.
WholeWordOccurs(s, keyword) ==
  \E i \in 1..(Len(s) - Len(keyword) + 1) :
    /\ toLowerCase(SubSeq(s, i, i + Len(keyword) - 1)) = keyword
    /\ i = 1 \/ ~IsWordChar(s[i - 1])
    /\ i + Len(keyword) > Len(s) \/ ~IsWordChar(s[i + Len(keyword)])

\* The keyword occurs in s, in any letter case, inside a longer identifier.
OccursInsideIdentifier(s, keyword) ==
  \E i \in 1..(Len(s) - Len(keyword) + 1) :
    /\ toLowerCase(SubSeq(s, i, i + Len(keyword) - 1)) = keyword
    /\ \/ i > 1 /\ IsWordChar(s[i - 1])
       \/ i + Len(keyword) <= Len(s) /\ IsWordChar(s[i + Len(keyword)])

\* The keywords claim C4 lists: the denylist up to `kill` without the prefixes.
ListedKeywords ==
  {dangerousKeywords[i] : i \in (1..11) \cup (14..17)}

AllKeywords == {dangerousKeywords[i] : i \in 1..Len(dangerousKeywords)}

ProcedurePrefixes == {dangerousKeywords[12], dangerousKeywords[13]}

\* The first word of the trimmed, case-folded text: its longest prefix of word
\* characters.
FirstWord(s) ==
  LET t == toLowerCase(trim(s))
      n == Cardinality({i \in 1..Len(t) : \A j \in 1..i : IsWordChar(t[j])})
  IN  SubSeq(t, 1, n)

\* s names a stored procedure whose name starts with sp_ or xp_.
ReferencesStoredProcedure(s) ==
  \E k \in ProcedurePrefixes :
    \E i \in 1..(Len(s) - Len(k) + 1) :
      /\ toLowerCase(SubSeq(s, i, i + Len(k) - 1)) = k
      /\ i = 1 \/ ~IsWordChar(s[i - 1])

\* C1: callers racing for a tenant without a pool construct exactly one Pool
\* and all receive it; at most one Pool per tenant is in the map or live.
C1_OnePoolPerTenant ==
  \A t \in Tenants :
    LET constructed == {p \in PoolIds : poolTenant[p] = t}
        live == {p \in constructed : poolSt[p] \in {"open", "ending"} \/ pools[t] = p}
    IN  /\ Cardinality(live) <= 1
        /\ (\A p \in constructed : poolSt[p] # "ended") =>
             /\ Cardinality(constructed) <= 1
             /\ \A r \in Reqs :
                  (req[r].tenant = t /\ req[r].pool # 0) => req[r].pool = pools[t]

C1_Witness ==
  /\ NumReq >= 2
  /\ \E r1 \in Reqs, r2 \in Reqs :
       /\ r1 # r2
       /\ req[r1].pc = "connecting" /\ req[r2].pc = "connecting"
       /\ req[r1].tenant = req[r2].tenant
       /\ req[r1].pool # 0 /\ req[r1].pool = req[r2].pool
       /\ Cardinality({p \in PoolIds : poolTenant[p] = req[r1].tenant}) = 1

\* C2: on both routes the generated statement is handed to executeQuery only
\* after validateSQL accepted it; a rejected statement ends the request with
\* the rejection and no executeQuery call (so no connection) follows it.
C2_ValidatedBeforeExecution ==
  /\ rt.dispatched > 0 =>
       /\ rt.verdict.ok
       /\ rt.verdict = validateSQL(rt.examined)
  /\ (rt.verdict # NoVerdict /\ ~rt.verdict.ok) =>
       /\ rt.verdict = validateSQL(rt.examined)
       /\ rt.dispatched = 0
       /\ rt.pc = "end"
       /\ rt.response = "error"
       /\ rt.error = rt.verdict.kind
       /\ req[RouteReq].pc = "idle"
       /\ req[RouteReq].slot = 0
       /\ \A p \in PoolIds : Holders(p) = {}

C2_Witness ==
  /\ rt.path = "stream"
  /\ rt.pc = "end"
  /\ rt.verdict.kind = "DisallowedKeyword"
  /\ rt.verdict.keyword = <<"D", "R", "O", "P">>
  /\ rt.dispatched = 0

\* C3: a call that acquired a client released it exactly once when it is done,
\* on every exit path; a call that acquired none released none; once every
\* call is done nothing is checked out of any pool.
C3_ReleasedExactlyOnce ==
  /\ \A r \in Reqs :
       /\ req[r].pc = "done" =>
            /\ req[r].releases = req[r].acquired
            /\ req[r].acquired <= 1
            /\ req[r].slot = 0
       /\ req[r].pc = "querying" =>
            /\ req[r].acquired = 1
            /\ req[r].releases = 0
            /\ req[r].slot = req[r].pool
       /\ req[r].pc \in {"idle", "queued"} => req[r].slot = 0
  /\ (\A r \in Reqs : req[r].pc \in {"idle", "done"}) =>
       \A p \in PoolIds : Holders(p) = {} /\ Busy(p) = others[p]

C3_Witness ==
  \E r \in Reqs :
    /\ req[r].pc = "done"
    /\ req[r].gone
    /\ KindOf(req[r].outcome) = "ResultTooLarge"
    /\ req[r].acquired = 1
    /\ req[r].releases = 1

\* C4: a listed keyword as a whole word, in any letter case, is rejected; a
\* SELECT statement that has listed keywords only inside longer identifiers and
\* triggers no other rule is accepted.
C4_WholeWordKeywords ==
  Validated =>
    /\ (\E k \in ListedKeywords : WholeWordOccurs(vsql, k)) => ~vres.ok
    /\ ( /\ \E k \in ListedKeywords : OccursInsideIdentifier(vsql, k)
         /\ startsWith(toLowerCase(trim(vsql)), sSelect)
         /\ \A k \in AllKeywords : ~WholeWordOccurs(vsql, k)
         /\ \A i \in 1..Len(injectionPatterns) : ~RegexTest(injectionPatterns[i], vsql) )
       => vres.ok

C4_Witness ==
  /\ Validated
  /\ vres.ok
  /\ vsql = sDropdown
  /\ OccursInsideIdentifier(vsql, dangerousKeywords[1])

\* C5 (as claimed): a statement that names a stored procedure with the prefix
\* sp_ or xp_ is rejected.
C5_StoredProcedurePrefixRejected ==
  (Validated /\ ReferencesStoredProcedure(vsql)) => ~vres.ok

\* C6 (as claimed): a text is accepted only if its first word is exactly
\* `select`; any other text is rejected by the first rules.
C6_FirstKeywordIsSelect ==
  Validated =>
    /\ vres.ok => FirstWord(vsql) = sSelect
    /\ FirstWord(vsql) # sSelect => vres.kind \in {"EmptyInput", "NotSelect"}

\* C7: `union select`, `or 1=1`, `and 1=1` and `' or 'x'='x`, in any letter
\* case, with any whitespace between their tokens (runs of one character or
\* of several, of blanks, of newlines or of both) and with or without a
\* comment marker after them, are rejected.
C7_InjectionConstructsRejected ==
  (Validated /\ vfam = "tautology") => ~vres.ok

C7_Witness ==
  /\ Validated
  /\ vfam = "tautology"
  /\ vres.kind = "InjectionPatternDetected"
  /\ \E w \in WsRuns1 :
       /\ Len(w) = MaxWs
       /\ \E i \in 1..Len(w) : w[i] # w[1]
       /\ includes(vsql, toUpperCase(<<"u", "n", "i", "o", "n">> \o w \o sSelect))

\* C8 (as claimed): the text handed to executeQuery is, character for
\* character, the text validateSQL examined.
C8_ExecutedTextIsExaminedText ==
  rt.dispatched > 0 => rt.sql = rt.examined

\* C8 (amended): the text handed to executeQuery is the examined text with its
\* leading and trailing whitespace removed and nothing else changed; on the
\* streaming route, where the text is trimmed before validation, it is the
\* examined text itself.
C8_ExecutedTextIsTrimmedExaminedText ==
  rt.dispatched > 0 =>
    /\ rt.verdict.ok
    /\ rt.sql = trim(rt.examined)
    /\ rt.path = "stream" => rt.sql = rt.examined
    /\ req[RouteReq].pc \in {"connecting", "queued", "querying"} =>
         req[RouteReq].sql = rt.sql
    /\ req[RouteReq].pc = "querying" => req[RouteReq].sent = rt.sql

C8_Witness ==
  /\ rt.path = "execute"
  /\ rt.examined = sPadded
  /\ rt.sql = sSelect1
  /\ req[RouteReq].pc = "querying"
  /\ req[RouteReq].sent = sSelect1

\* C9: executeQuery fails with the row-limit error, which names MAX_ROWS,
\* exactly when the statement's rowCount is above MAX_ROWS (MAX_ROWS rows
\* succeed); the check is made once the statement has run, and the text sent
\* to the database is the text executeQuery was given.
C9_RowLimit ==
  \A r \in Reqs :
    /\ req[r].pc = "done" =>
         /\ KindOf(req[r].outcome) = "ResultTooLarge" <=> req[r].rowCount > MAX_ROWS
         /\ KindOf(req[r].outcome) = "ResultTooLarge" =>
              /\ req[r].outcome.limit = MAX_ROWS
              /\ req[r].acquired = 1
         /\ req[r].rowCount \in 0..MAX_ROWS =>
              req[r].outcome = Success(req[r].rowCount)
    /\ req[r].pc = "querying" => req[r].sent = req[r].sql

C9_Witness ==
  /\ \E r \in Reqs :
       /\ req[r].pc = "done"
       /\ req[r].rowCount = MAX_ROWS + 1
       /\ KindOf(req[r].outcome) = "ResultTooLarge"
  /\ \E r \in Reqs :
       /\ req[r].pc = "done"
       /\ req[r].rowCount = MAX_ROWS
       /\ req[r].outcome.ok

\* C10 (as claimed): a connect request that timed out in the pending queue of
\* a pool at its cap is reported as PoolExhausted.
C10_AcquireTimeoutIsPoolExhausted ==
  \A r \in Reqs :
    (req[r].pc = "done" /\ req[r].native = AcquireTimeoutError) =>
      KindOf(req[r].outcome) = "PoolExhausted"

\* closeAllPools call k has returned or thrown.
Settled(k) == sw[k].pc \in {"done", "exited"}

\* The closePool call of sweep k for t called end() on the pool (it did not fail).
Closes(k, t) == sw[k].sub[t] \in {"awaitEnd", "true"}

\* C11 (as claimed): when a closePool call of the sweep fails, closeAllPools
\* still finishes only after every other pool of the sweep is closed, and it
\* does not throw (so the SIGTERM handler does not take its catch branch).
C11_CloseFailureIsTolerated ==
  \A k \in Sweeps :
    (Settled(k) /\ \E t \in sw[k].ids : sw[k].sub[t] = "failed") =>
      /\ sw[k].result = "resolved"
      /\ \A t \in sw[k].ids : sw[k].sub[t] # "failed" => sw[k].sub[t] = "true"

\* C12 (as claimed): at the step in which closeAllPools returns, the map is
\* empty and every Pool that was constructed is ended, whatever executeQuery
\* calls ran while it was awaiting.
C12_CompleteMeansAllClosed ==
  [][ \A k \in Sweeps :
        ( /\ sw[k].pc = "awaiting" /\ sw[k].ids # {}
          /\ sw'[k].pc = "done" /\ sw'[k].result = "resolved" ) =>
          /\ \A t \in Tenants : pools'[t] = 0
          /\ \A p \in PoolIds : poolSt'[p] \in {"none", "ended"} ]_vars

\* C13 (as claimed): a closeAllPools call made after or during another one
\* succeeds, and no Pool has end() called on it by both.
C13_CloseAllIsIdempotent ==
  \A k \in Sweeps, k2 \in Sweeps :
    (k # k2 /\ sw[k2].pc # "idle" /\ Settled(k)) =>
      /\ sw[k].result = "resolved"
      /\ \A t \in Tenants :
           (Closes(k, t) /\ Closes(k2, t)) => sw[k].pool[t] # sw[k2].pool[t]

\* C14: a Pool is ended only when no caller holds a client of it: while an
\* executeQuery call holds (or is being connected) a client, its pool is open
\* or ending, and a closePool call removes the pool from the map and returns
\* true only once the pool is ended with every client back.
C14_NoCloseUnderHolder ==
  /\ \A p \in PoolIds : poolSt[p] = "ended" => Busy(p) = 0
  /\ \A r \in Reqs : req[r].slot # 0 => poolSt[req[r].slot] \in {"open", "ending"}
  /\ \A k \in Sweeps, t \in Tenants :
       sw[k].sub[t] = "true" =>
         /\ poolSt[sw[k].pool[t]] = "ended"
         /\ pools[t] # sw[k].pool[t]
         /\ Holders(sw[k].pool[t]) = {}

C14_Witness ==
  \E r \in Reqs, k \in Sweeps :
    /\ req[r].pc = "done"
    /\ req[r].outcome.ok
    /\ req[r].acquired = 1 /\ req[r].releases = 1
    /\ sw[k].pool[req[r].tenant] = req[r].pool
    /\ sw[k].sub[req[r].tenant] = "true"
    /\ poolSt[req[r].pool] = "ended"

SeveralLabels(hostname) == \E i \in 1..Len(hostname) : hostname[i] = "."

\* C15 (as claimed): two connection strings that differ only in user name,
\* password or the host labels after the first are redacted to the same text,
\* and a text that cannot be parsed to one fixed placeholder.
C15_RedactionHidesCredentialsAndHost ==
  dg.pc = "masked" =>
    /\ dg.kind = "pair" => dg.outA = dg.outB
    /\ dg.kind = "bad" =>
         dg.outA \in {sMaskedConnectionString, sInvalidConnectionString}

\* The text shows the host of the connection string in full, or its password.
EchoesDsn(text, parts) ==
  \/ SeveralLabels(parts.hostname) /\ includes(text, parts.hostname)
  \/ parts.password # << >> /\ includes(text, parts.password)

\* C16 (as claimed): nothing executeQuery or getSchema logs or throws for a
\* caught error shows the host of the connection string in full or its
\* password, also when the driver's message does.
C16_NoDsnInLogsOrErrors ==
  dg.pc \in {"caught", "wrapped"} =>
    /\ \A i \in 1..Len(dg.logs) : ~EchoesDsn(dg.logs[i], dg.a)
    /\ ~EchoesDsn(dg.thrown, dg.a)

\* POST /execute/stream has done its final parsing.
StreamParsed == rt.path = "stream" /\ rt.verdict # NoVerdict

\* The stream's whole text fed as a single fragment, then the final parsing.
OneFragment(text) == StreamStep([IdleRoute EXCEPT !.path = "stream"], text)

HasEvent(e) == \E i \in 1..Len(rt.events) : rt.events[i] = e

\* C17: the final sqlBuffer and explanationBuffer are those of the whole text
\* fed as one fragment, however the text was cut into fragments, and the
\* final sql and explanation events carry them.
C17_FinalRegionsIgnoreChunking ==
  StreamParsed =>
    /\ rt.sqlBuffer = FinalSqlBuffer(OneFragment(rt.fullResponse))
    /\ rt.explanationBuffer = FinalExplanationBuffer(OneFragment(rt.fullResponse))
    /\ rt.examined = trim(rt.sqlBuffer)
    /\ rt.verdict.ok =>
         /\ HasEvent(Event("sql", trim(rt.sqlBuffer), FALSE))
         /\ HasEvent(Event("explanation", trim(rt.explanationBuffer), FALSE))
         /\ \A i \in 1..Len(rt.events) :
              ~rt.events[i].partial =>
                /\ rt.events[i].type = "sql" => rt.events[i].content = trim(rt.sqlBuffer)
                /\ rt.events[i].type = "explanation" =>
                     rt.events[i].content = trim(rt.explanationBuffer)

C17_Witness ==
  /\ StreamParsed
  /\ rt.chunks = 2
  /\ rt.fullResponse = fSql \o fTail
  /\ rt.verdict.ok
  /\ rt.sqlBuffer = <<"S", "E", "L", "E", "C", "T", " ", "1", " ", "F", "R", "O", "M", " ", "t">>
  /\ HasEvent(Event("sql", <<"S", "E", "L", "E", "C", "T", " ", "1">>, TRUE))
  /\ HasEvent(Event("sql", rt.sqlBuffer, FALSE))

\* C18 (as claimed): for the fragments fPreamble, fExplain the final sqlBuffer
\* is `SELECT 1;` and the final explanationBuffer is `returns one.`.
C18_PreambleScenario ==
  (StreamParsed /\ rt.chunks = 2 /\ rt.fullResponse = fPreamble \o fExplain) =>
    /\ rt.sqlBuffer = <<"S", "E", "L", "E", "C", "T", " ", "1", ";">>
    /\ rt.explanationBuffer = <<"r", "e", "t", "u", "r", "n", "s", " ", "o", "n", "e", ".">>

\* s occurs in text at the 0-based position i.
OccursAt(text, s, i) == i >= 0 /\ i + Len(s) <= Len(text) /\ SubSeq(text, i + 1, i + Len(s)) = s

\* C19 (as claimed): a final sqlBuffer that is not empty is a trimmed piece of
\* the text that lies after the first `sql:` label, holds neither label, and
\* does not overlap the piece the final explanationBuffer is.
C19_RegionsCleanlySeparated ==
  (StreamParsed /\ rt.sqlBuffer # << >>) =>
    LET text == rt.fullResponse
        sqlStart == indexOf(toLowerCase(text), sqlLabel)
    IN  /\ trim(rt.sqlBuffer) = rt.sqlBuffer
        /\ ~includes(toLowerCase(rt.sqlBuffer), sqlLabel)
        /\ ~includes(toLowerCase(rt.sqlBuffer), expLabel)
        /\ \E i \in (sqlStart + 4)..Len(text) :
             /\ OccursAt(text, rt.sqlBuffer, i)
             /\ rt.explanationBuffer # << >> =>
                  \E j \in 0..Len(text) :
                    /\ OccursAt(text, rt.explanationBuffer, j)
                    /\ i + Len(rt.sqlBuffer) <= j \/ j + Len(rt.explanationBuffer) <= i

\* C20 (as claimed): a streaming run that reached the generation stage and
\* ended with no `sql:` label in the text has an empty sqlBuffer, never called
\* validateSQL, reports the failure of the generation, called executeQuery for
\* no statement, wrote no results event and ends with an error event.
C20_MissingSqlLabelIsGenerationFailure ==
  ( /\ rt.path = "stream"
    /\ rt.pc = "end"
    /\ HasEvent(Event("schema", << >>, FALSE))
    /\ ~includes(toLowerCase(rt.fullResponse), sqlLabel) ) =>
    /\ rt.sqlBuffer = << >>
    /\ rt.verdict = NoVerdict
    /\ rt.error = "AI service error"
    /\ rt.dispatched = 0
    /\ rt.sql = << >>
    /\ rt.response = "error"
    /\ rt.events[Len(rt.events)].type = "error"
    /\ \A i \in 1..Len(rt.events) : rt.events[i].type \notin {"results", "complete"}

\* The positions of the events of a type and partial flag.
Positions(type, partial) ==
  {i \in 1..Len(rt.events) : rt.events[i].type = type /\ rt.events[i].partial = partial}

StreamOk == rt.path = "stream" /\ rt.response = "complete"

\* C21: a streaming run that succeeded wrote exactly one final sql event and
\* exactly one final explanation event, both before the results event, and
\* every partial sql or explanation event before both of them.
C21_FinalEventsOnceBeforeResults ==
  StreamOk =>
    /\ Cardinality(Positions("sql", FALSE)) = 1
    /\ Cardinality(Positions("explanation", FALSE)) = 1
    /\ Cardinality(Positions("results", FALSE)) = 1
    /\ \A f \in Positions("sql", FALSE) \cup Positions("explanation", FALSE) :
         /\ \A r \in Positions("results", FALSE) : f < r
         /\ \A q \in Positions("sql", TRUE) \cup Positions("explanation", TRUE) : q < f

C21_Witness ==
  /\ StreamOk
  /\ Positions("sql", TRUE) # {}
  /\ Positions("explanation", TRUE) # {}
  /\ Positions("results", FALSE) # {}

Terminals == {i \in 1..Len(rt.events) : rt.events[i].type \in {"complete", "error"}}

\* C22: a streaming run that has ended wrote exactly one terminal event,
\* complete or error, as its last event, complete directly after the results
\* event; a run that has not ended wrote none.
C22_OneTerminalEvent ==
  rt.path = "stream" =>
    IF rt.pc = "end"
      THEN /\ Terminals = {Len(rt.events)}
           /\ rt.events[Len(rt.events)].type = "complete" =>
                /\ Len(rt.events) >= 2
                /\ rt.events[Len(rt.events) - 1].type = "results"
           /\ rt.events[Len(rt.events)].type = "error" <=> rt.response = "error"
      ELSE Terminals = {}

C22_Witness ==
  /\ rt.path = "stream"
  /\ rt.pc = "end"
  /\ rt.events[Len(rt.events)].type = "error"
  /\ Positions("sql", FALSE) # {}
  /\ Positions("status", FALSE) # {}
  /\ Positions("results", FALSE) = {}

\* C23: on the streaming path the step that dispatches the statement consumes
\* no fragment, is the first dispatch of the request, and dispatches the
\* trimmed final sqlBuffer of the text received, which validateSQL accepted;
\* after it no fragment is consumed; the client being gone changes none of it.
C23_DispatchOnceAfterStreamEnd ==
  [][ rt.path = "stream" =>
        /\ rt'.dispatched # rt.dispatched =>
             /\ rt.pc = "generate"
             /\ rt.dispatched = 0
             /\ rt'.dispatched = 1
             /\ rt'.chunks = rt.chunks
             /\ rt'.fullResponse = rt.fullResponse
             /\ rt'.verdict = validateSQL(rt'.examined)
             /\ rt'.verdict.ok
             /\ rt'.examined = trim(FinalSqlBuffer(rt))
             /\ rt'.sql = rt'.examined
             /\ req'[RouteReq].sql = rt'.sql
        /\ rt.dispatched > 0 => rt'.chunks = rt.chunks /\ rt'.sql = rt.sql
    ]_vars

C23_Witness ==
  /\ rt.path = "stream"
  /\ rt.gone
  /\ rt.dispatched = 1
  /\ rt.pc = "execute"
  /\ req[RouteReq].pc = "querying"
  /\ req[RouteReq].sent = rt.sql
  /\ \E i \in Positions("sql", TRUE) : rt.events[i].content # rt.sql

\* A write of a history record or updateLastUsed has been started.
SideEffectsStarted(st) ==
  st.history # "none" \/ st.lastUsed # "none" \/ st.failHistory # "none"

\* C24 (as claimed): a history record is written and the last-used timestamp
\* updated only once executeQuery of the generated statement has returned or
\* thrown; from then on, whichever of them fails or succeeds, the response,
\* the error and the events written stay what they were.
C24_SideEffectsOnlyAfterExecution ==
  [][ /\ SideEffectsStarted(rt') =>
           /\ rt'.dispatched = 1
           /\ req'[RouteReq].pc = "done"
      /\ SideEffectsStarted(rt) =>
           /\ rt'.response = rt.response
           /\ rt'.events = rt.events
           /\ rt'.error = rt.error
    ]_vars

\* C25 (as claimed): the Error getSchema throws when its executeQuery call
\* failed is the Error executeQuery threw, unchanged.
C25_SchemaFailureIsExecutorFailure ==
  dg.pc = "wrapped" => dg.thrown = CatchBlock(dg.error, dg.dsnA).thrown

\* The precedence table of the taxonomy: native code, message of the kind.
TaxonomyCodes ==
  << << <<"E", "C", "O", "N", "N", "R", "E", "F", "U", "S", "E", "D">>,
        <<"D", "a", "t", "a", "b", "a", "s", "e", " ", "c", "o", "n", "n", "e", "c", "t", "i", "o", "n", " ", "r", "e", "f", "u", "s", "e", "d", " ", "-", " ", "c", "h", "e", "c", "k", " ", "i", "f", " ", "d", "a", "t", "a", "b", "a", "s", "e", " ", "i", "s", " ", "r", "u", "n", "n", "i", "n", "g">> >>,
     << <<"E", "N", "O", "T", "F", "O", "U", "N", "D">>,
        <<"D", "a", "t", "a", "b", "a", "s", "e", " ", "h", "o", "s", "t", " ", "n", "o", "t", " ", "f", "o", "u", "n", "d", " ", "-", " ", "c", "h", "e", "c", "k", " ", "c", "o", "n", "n", "e", "c", "t", "i", "o", "n", " ", "s", "t", "r", "i", "n", "g">> >>,
     << <<"2", "8", "P", "0", "1">>,
        <<"D", "a", "t", "a", "b", "a", "s", "e", " ", "a", "u", "t", "h", "e", "n", "t", "i", "c", "a", "t", "i", "o", "n", " ", "f", "a", "i", "l", "e", "d", " ", "-", " ", "c", "h", "e", "c", "k", " ", "u", "s", "e", "r", "n", "a", "m", "e", "/", "p", "a", "s", "s", "w", "o", "r", "d">> >>,
     << <<"3", "D", "0", "0", "0">>,
        <<"D", "a", "t", "a", "b", "a", "s", "e", " ", "d", "o", "e", "s", " ", "n", "o", "t", " ", "e", "x", "i", "s", "t", " ", "-", " ", "c", "h", "e", "c", "k", " ", "d", "a", "t", "a", "b", "a", "s", "e", " ", "n", "a", "m", "e">> >>,
     << <<"4", "2", "P", "0", "1">>,
        <<"T", "a", "b", "l", "e", " ", "d", "o", "e", "s", " ", "n", "o", "t", " ", "e", "x", "i", "s", "t", " ", "-", " ", "c", "h", "e", "c", "k", " ", "t", "a", "b", "l", "e", " ", "n", "a", "m", "e">> >>,
     << <<"4", "2", "6", "0", "1">>,
        <<"S", "Q", "L", " ", "s", "y", "n", "t", "a", "x", " ", "e", "r", "r", "o", "r", " ", "-", " ", "c", "h", "e", "c", "k", " ", "q", "u", "e", "r", "y", " ", "s", "y", "n", "t", "a", "x">> >>,
     << <<"2", "3", "5", "0", "5">>,
        <<"D", "u", "p", "l", "i", "c", "a", "t", "e", " ", "k", "e", "y", " ", "v", "i", "o", "l", "a", "t", "i", "o", "n", " ", "-", " ", "u", "n", "i", "q", "u", "e", " ", "c", "o", "n", "s", "t", "r", "a", "i", "n", "t", " ", "f", "a", "i", "l", "e", "d">> >>,
     << <<"2", "3", "5", "0", "3">>,
        <<"F", "o", "r", "e", "i", "g", "n", " ", "k", "e", "y", " ", "v", "i", "o", "l", "a", "t", "i", "o", "n", " ", "-", " ", "r", "e", "f", "e", "r", "e", "n", "c", "e", "d", " ", "r", "e", "c", "o", "r", "d", " ", "d", "o", "e", "s", " ", "n", "o", "t", " ", "e", "x", "i", "s", "t">> >> >>

\* The Error text the taxonomy gives a native error: the first row of
\* TaxonomyCodes with the error's code, else Timeout for a message with
\* `timeout`, else DatabaseError with the original message.
TaxonomyText(error) ==
  LET rows == {i \in 1..Len(TaxonomyCodes) : TaxonomyCodes[i][1] = error.code}
      row == CHOOSE i \in rows : \A j \in rows : i <= j
      text == IF rows # {} THEN TaxonomyCodes[row][2]
              ELSE IF includes(error.message, sTimeout)
                THEN <<"Q", "u", "e", "r", "y", " ", "t", "i", "m", "e", "o", "u", "t", " ", "-", " ", "q", "u", "e", "r", "y", " ", "t", "o", "o", "k", " ", "t", "o", "o", " ", "l", "o", "n", "g", " ", "t", "o", " ", "e", "x", "e", "c", "u", "t", "e">>
              ELSE <<"D", "a", "t", "a", "b", "a", "s", "e", " ", "e", "r", "r", "o", "r", ":", " ">> \o error.message
  IN  text \o <<" ", "(">> \o (IF error.code = << >> THEN sUnknown ELSE error.code)
      \o <<")">>

\* C27 (as claimed): executeQuery's own row-limit Error is thrown on as it is,
\* and every native error is thrown as the taxonomy's text for it.
C27_ClosedTaxonomyByPrecedence ==
  dg.pc = "caught" =>
    dg.thrown = IF dg.error = DriverError(<< >>, sRowLimitText)
                  THEN sRowLimitText
                  ELSE TaxonomyText(dg.error)

\* C28 (as claimed): the pool getPool hands to a call of executeQuery is open
\* when it is handed over.
C28_GetPoolReturnsOpenPool ==
  [][ \A r \in Reqs :
        (req[r].pc = "idle" /\ req'[r].pc # "idle" /\ req'[r].pool # 0) =>
          poolSt[req'[r].pool] \in {"none", "open"} /\ poolSt'[req'[r].pool] = "open"
    ]_vars

\* C29 (as claimed): a statement that was sent to the database was sent over
\* a pool constructed from the connection string of its call.
C29_StatementRunsOnCallersDsn ==
  \A r \in Reqs :
    (req[r].pc = "querying" /\ req[r].sent # << >>) => poolDsn[req[r].pool] = req[r].dsn

\* The trimmed text that follows the first occurrence of a label.
Following(text, label) ==
  trim(substring(text, indexOf(toLowerCase(text), label) + Len(label), Len(text)))

Streaming == rt.path = "stream" /\ rt.pc = "generate" /\ rt.chunks >= 1

\* C26 (as claimed): while only the `sql:` label has been seen, the event
\* written for the last fragment is the partial sql snapshot of all the text
\* that follows the label; once the `explanation:` label has been seen it is
\* the partial explanation snapshot of all the text that follows that label.
C26_OpenRegionGrowsWithStream ==
  Streaming =>
    LET lower == toLowerCase(rt.fullResponse)
        last == rt.events[Len(rt.events)]
    IN  /\ (includes(lower, sqlLabel) /\ ~includes(lower, expLabel)
              /\ Following(rt.fullResponse, sqlLabel) # << >>) =>
             last = Event("sql", Following(rt.fullResponse, sqlLabel), TRUE)
        /\ (includes(lower, expLabel) /\ Following(rt.fullResponse, expLabel) # << >>) =>
             last = Event("explanation", Following(rt.fullResponse, expLabel), TRUE)

\* C30 (as claimed): a fragment never takes currentSection from explanation
\* back to sql, and no partial sql event is written after a partial
\* explanation event.
C30_ActiveRegionOnlyMovesForward ==
  [][ rt.path = "stream" =>
        /\ rt.currentSection = "explanation" => rt'.currentSection = "explanation"
        /\ \A i \in 1..Len(rt'.events), j \in 1..Len(rt'.events) :
             (i < j /\ rt'.events[i].type = "explanation" /\ rt'.events[i].partial) =>
               ~(rt'.events[j].type = "sql" /\ rt'.events[j].partial)
    ]_vars

=============================================================================
